--------------------------------- MODULE Rest ---------------------------------
(***************************************************************************)
(* The REST calls to the venue (pb-feed/src/rest.rs): how an answer is     *)
(* classified and bounded before any of it is used.                        *)
(*                                                                         *)
(* An answer is [status, announced, chunks, broken, value]: the            *)
(* Content-Length (0 if there is none), the lengths of the body's parts in *)
(* the order they come in, whether the connection ends before the body     *)
(* does, and what the body says (Unparsed if it is not the JSON expected). *)
(***************************************************************************)
EXTENDS Integers, Sequences

CONSTANTS
    MaxRestBodyBytes, MaxGammaEvents, MaxRestBookLevels, MaxClobTokens,
    Unparsed

OKs == 200 .. 299
TooManyRequests == 429

Failure(error) == [error |-> error]

\* read_json_limited: the announced length is looked at before the body, the body
\* after every part of it.
ReadJsonLimited(answer) ==
    LET length[i \in 0 .. Len(answer.chunks)] ==
            IF i = 0 THEN 0 ELSE length[i - 1] + answer.chunks[i]
        tooLong == \/ answer.announced > MaxRestBodyBytes
                   \/ \E i \in DOMAIN answer.chunks : length[i] > MaxRestBodyBytes
    IN  IF tooLong THEN Failure("PayloadTooLarge")
        ELSE IF answer.broken THEN Failure("Rest")
        ELSE IF answer.value = Unparsed THEN Failure("Deserialize")
        ELSE [error |-> "none", value |-> answer.value]

\* classify_status.
ClassifyStatus(status) ==
    IF status \in OKs THEN "none"
    ELSE IF status = TooManyRequests THEN "RateLimited" ELSE "HttpStatus"

\* classify_response, then the body.
Received(answer) ==
    IF ClassifyStatus(answer.status) # "none" THEN Failure(ClassifyStatus(answer.status))
    ELSE ReadJsonLimited(answer)

Limited(result, fits, error) ==
    IF result.error = "none" /\ ~fits THEN Failure(error) ELSE result

\* fetch_book: the value is the book's sides.
FetchBook(answer) ==
    LET r == Received(answer)
    IN  Limited(r, Len(r.value.bids) <= MaxRestBookLevels /\ Len(r.value.asks) <= MaxRestBookLevels,
                "BookTooLarge")

\* How many events a page of discover_markets asks for.
RequestLimit(limit) == IF limit > MaxGammaEvents THEN MaxGammaEvents ELSE limit

\* discover_markets and discover_by_slug: a page may hold more events than were asked for.
Discover(answer) ==
    LET r == Received(answer) IN Limited(r, Len(r.value) <= MaxGammaEvents, "ArrayTooLarge")

\* get_clob_market_info: the value's t lists the outcomes.
GetClobMarketInfo(answer) ==
    LET r == Received(answer) IN Limited(r, Len(r.value.t) <= MaxClobTokens, "ArrayTooLarge")
===============================================================================
