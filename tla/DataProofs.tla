------------------------------ MODULE DataProofs ------------------------------
(***************************************************************************)
(* What the definitions of data are true of, for every input: the texts and*)
(* encodings of prices and sizes, the records the store gives back, the names*)
(* of the assets, the integrity of a history, the delays and rates by which*)
(* the feed spares the venue.                                              *)
(***************************************************************************)
EXTENDS Service, Reconnect, RateLimiter, TLAPS

(***************************************************************************)
(* A price and a size survive every text and every encoding, for any width *)
(* of the machine's integers that holds the price scale.                   *)
(***************************************************************************)

\* The powers of ten that occur.
LEMMA Powers ==
    /\ Pow10(0) = 1 /\ Pow10(1) = 10 /\ Pow10(2) = 100 /\ Pow10(3) = 1000
    /\ Pow10(4) = 10000 /\ Pow10(5) = 100000 /\ Pow10(6) = 1000000
BY DEF Pow10

\* None of them is zero.
LEMMA PowersPositive == \A n \in 0 .. 6 : Pow10(n) \in Nat \ {0}
BY Powers

\* A fraction padded to d places is multiplied by a power of ten.
LEMMA Padding ==
    ASSUME NEW d \in 0 .. 6, NEW k \in 0 .. d
    PROVE  Pow10(k) * Pow10(d - k) = Pow10(d)
<1>1. CASE k = 0  BY <1>1, Powers
<1>2. CASE k = 1  BY <1>2, Powers
<1>3. CASE k = 2  BY <1>3, Powers
<1>4. CASE k = 3  BY <1>4, Powers
<1>5. CASE k = 4  BY <1>5, Powers
<1>6. CASE k = 5  BY <1>6, Powers
<1>7. CASE k = 6  BY <1>7, Powers
<1>8. QED  BY <1>1, <1>2, <1>3, <1>4, <1>5, <1>6, <1>7

\* Scaling a sum of whole and fraction, term by term.
LEMMA Rescaling ==
    ASSUME NEW int \in Nat, NEW frac \in Nat, NEW whole \in Nat, NEW part \in Nat, NEW rest \in Nat,
           part * rest = whole
    PROVE  (int * whole + frac * rest) * part = (int * part + frac) * whole
<1>1. (int * whole + frac * rest) * part = int * whole * part + frac * (part * rest)
  OBVIOUS
<1>2. (int * part + frac) * whole = int * whole * part + frac * whole
  OBVIOUS
<1>3. QED  BY <1>1, <1>2

\* Sums of products are natural numbers.
LEMMA Sums ==
    ASSUME NEW i \in Nat, NEW j \in Nat, NEW k \in Nat, NEW l \in Nat
    PROVE  i * j + k * l \in Nat
OBVIOUS

\* parse_scaled_decimal: the number the text spells, times ten to the number of places.
LEMMA ScaledDecimal ==
    ASSUME Machine, NEW t, t # Malformed, WellSpelled(t), NEW d \in 0 .. 6,
           ParseScaledDecimal(t, d) # Invalid
    PROVE  /\ ParseScaledDecimal(t, d) \in Nat
           /\ ParseScaledDecimal(t, d) * Pow10(t.places)
                = (t.int * Pow10(t.places) + t.frac) * Pow10(d)
<1>1. t.places \in 0 .. d /\ t.int \in Nat /\ t.frac \in Nat
  BY DEF ParseScaledDecimal, WellSpelled, Texts
<1>2. /\ Pow10(d) \in Nat /\ Pow10(t.places) \in Nat /\ Pow10(d - t.places) \in Nat
      /\ Pow10(t.places) * Pow10(d - t.places) = Pow10(d)
  <2>1. d - t.places \in 0 .. 6 /\ t.places \in 0 .. 6
    BY <1>1
  <2>2. QED  BY <1>1, <2>1, PowersPositive, Padding
<1>3. ParseScaledDecimal(t, d) = t.int * Pow10(d) + t.frac * Pow10(d - t.places)
  BY DEF ParseScaledDecimal
<1>4. ParseScaledDecimal(t, d) \in Nat
  <2>1. t.int * Pow10(d) + t.frac * Pow10(d - t.places) \in Nat
    BY <1>1, <1>2, Sums, Zenon
  <2>2. QED  BY <1>3, <2>1, Zenon
<1>5. QED  BY <1>1, <1>2, <1>3, <1>4, Rescaling

\* A price is the number its text spells, to the last digit, and between 0 and 1
\* (parse_scaled_decimal, TryFrom<&str> for FixedPrice).
THEOREM PriceTextExact ==
    ASSUME Machine, NEW t, t # Malformed, WellSpelled(t), ParsePrice(t) # Invalid
    PROVE  /\ ParsePrice(t) \in Prices
           /\ ParsePrice(t) * Pow10(t.places) = (t.int * Pow10(t.places) + t.frac) * PRICE_SCALE
<1>1. ParseScaledDecimal(t, 4) # Invalid /\ ParsePrice(t) = NewPrice(ParseScaledDecimal(t, 4))
  BY DEF ParsePrice
<1>2. ParsePrice(t) = ParseScaledDecimal(t, 4) /\ ~(ParsePrice(t) > PRICE_SCALE)
  BY <1>1 DEF NewPrice
<1>3. 4 \in 0 .. 6
  OBVIOUS
<1>4. /\ ParsePrice(t) \in Nat
      /\ ParsePrice(t) * Pow10(t.places) = (t.int * Pow10(t.places) + t.frac) * Pow10(4)
  BY <1>1, <1>2, <1>3, ScaledDecimal
<1>5. PRICE_SCALE = Pow10(4) /\ PRICE_SCALE \in Nat
  BY Powers DEF PRICE_SCALE
<1>6. ParsePrice(t) \in Prices
  BY <1>2, <1>4, <1>5 DEF Prices
<1>7. QED  BY <1>4, <1>5, <1>6

\* A size is the number its text spells, to the last digit (TryFrom<&str> for FixedSize).
THEOREM SizeTextExact ==
    ASSUME Machine, NEW t, t # Malformed, WellSpelled(t), ParseSize(t) # Invalid
    PROVE  /\ ParseSize(t) \in Sizes
           /\ ParseSize(t) * Pow10(t.places) = (t.int * Pow10(t.places) + t.frac) * SIZE_SCALE
<1>1. /\ ParseScaledDecimal(t, 6) # Invalid
      /\ ParseSize(t) = ParseScaledDecimal(t, 6) /\ ~(ParseSize(t) > MaxU64)
  BY DEF ParseSize
<1>2. 6 \in 0 .. 6
  OBVIOUS
<1>3. /\ ParseSize(t) \in Nat
      /\ ParseSize(t) * Pow10(t.places) = (t.int * Pow10(t.places) + t.frac) * Pow10(6)
  BY <1>1, <1>2, ScaledDecimal
<1>4. SIZE_SCALE = Pow10(6)
  BY Powers DEF SIZE_SCALE
<1>5. ParseSize(t) \in Sizes
  BY <1>1, <1>3 DEF Sizes, Machine
<1>6. QED  BY <1>3, <1>4, <1>5

\* What a number is made of again from its quotient and its remainder.
LEMMA Division ==
    ASSUME NEW n \in Nat, NEW p \in Nat \ {0}
    PROVE  n \div p \in Nat /\ n % p \in Nat /\ n = (n \div p) * p + (n % p)
<1>1. n \div p \in Nat
  BY SMT
<1>2. n % p \in Nat
  BY SMT
<1>3. n = p * (n \div p) + (n % p)
  BY SMT
<1>4. QED  BY <1>1, <1>2, <1>3, SMT

\* A displayed number parses as itself.
LEMMA SpelledIn ==
    ASSUME Machine, NEW d \in {4, 6}, NEW n \in Nat, n <= MaxU128
    PROVE  ParseScaledDecimal(Spell(n, d, 1), d) = n
<1>. DEFINE p == Pow10(d)
            t == Spell(n, d, 1)
<1>1. /\ d - d = 0 /\ p \in Nat /\ n \div p \in Nat /\ n % p \in Nat
      /\ n = (n \div p) * p + (n % p)
  <2>1. d - d = 0 /\ p \in Nat \ {0}
    BY PowersPositive
  <2>2. QED  BY <2>1, Division, Zenon
<1>2. /\ t = [digits |-> 1, int |-> n \div p, places |-> d, frac |-> n % p]
      /\ t.digits = 1 /\ t.int = n \div p /\ t.places = d /\ t.frac = n % p
  BY DEF Spell
<1>3. t # Malformed
  <2>1. t \in Texts
    BY <1>1, <1>2 DEF Texts
  <2>2. QED  BY <2>1 DEF Machine
<1>. HIDE DEF p, t
<1>4. t.int * Pow10(d) + t.frac * Pow10(d - t.places) = n
  <2>1. Pow10(d - t.places) = 1
    BY <1>1, <1>2, Powers
  <2>2. QED  BY <1>1, <1>2, <2>1 DEF p
<1>5. ParseScaledDecimal(t, d) = n
  BY <1>2, <1>3, <1>4 DEF ParseScaledDecimal, Machine
<1>6. QED  BY <1>5 DEF t

\* What serde writes it reads back, as text and in binary: a price in the store's
\* checkpoints or in the WAL is the price that was recorded (fixed.rs, Serialize).
THEOREM PricesRoundTrip ==
    ASSUME Machine
    PROVE  \A p \in Prices, readable \in BOOLEAN :
               DeserializePrice(SerializePrice(p, readable), readable) = p
<1>1. PRICE_SCALE \in Nat
  BY DEF PRICE_SCALE
<1>. SUFFICES ASSUME NEW p \in Prices
              PROVE  ParsePrice(DisplayPrice(p)) = p /\ NewPrice(p) = p
  BY DEF SerializePrice, DeserializePrice
<1>2. p \in Nat /\ p <= PRICE_SCALE /\ p <= MaxU128 /\ p # Invalid
  BY <1>1 DEF Prices, Machine
<1>3. NewPrice(p) = p
  BY <1>1, <1>2 DEF NewPrice
<1>4. ParseScaledDecimal(Spell(p, 4, 1), 4) = p
  BY <1>2, SpelledIn
<1>5. QED  BY <1>2, <1>3, <1>4, Zenon DEF ParsePrice, DisplayPrice

\* The same of sizes, up to the largest u64.
THEOREM SizesRoundTrip ==
    ASSUME Machine
    PROVE  \A s \in Sizes, readable \in BOOLEAN :
               DeserializeSize(SerializeSize(s, readable), readable) = s
<1>. SUFFICES ASSUME NEW s \in Sizes
              PROVE  ParseSize(DisplaySize(s)) = s
  BY DEF SerializeSize, DeserializeSize
<1>1. s \in Nat /\ s <= MaxU64 /\ s <= MaxU128 /\ s # Invalid /\ ~(s > MaxU64)
  BY DEF Sizes, Machine
<1>2. ParseScaledDecimal(Spell(s, 6, 1), 6) = s
  BY <1>1, SpelledIn
<1>3. QED  BY <1>1, <1>2, Zenon DEF ParseSize, DisplaySize

\* A time of our days comes out the same, to the resolution it was sent in, whether the
\* venue sends seconds, milliseconds, microseconds or nanoseconds (normalize_to_micros).
THEOREM UnitsAgree ==
    ASSUME Machine, NEW t \in Nat, US_THRESHOLD <= t, t < NS_THRESHOLD, NS_THRESHOLD <= MaxU64
    PROVE  /\ NormalizeToMicros(t) = t
           /\ NormalizeToMicros(t \div 1000) \in t - 999 .. t
           /\ NormalizeToMicros(t \div 1000000) \in t - 999999 .. t
           /\ \A r \in 0 .. 999 : NormalizeToMicros(1000 * t + r) = t
<1>1. NormalizeToMicros(t) = t
  BY SMT DEF NormalizeToMicros, MS_THRESHOLD, US_THRESHOLD, NS_THRESHOLD
<1>2. NormalizeToMicros(t \div 1000) \in t - 999 .. t
  BY SMT DEF NormalizeToMicros, SaturatingMul, MS_THRESHOLD, US_THRESHOLD, NS_THRESHOLD, Machine
<1>3. NormalizeToMicros(t \div 1000000) \in t - 999999 .. t
  BY SMT DEF NormalizeToMicros, SaturatingMul, MS_THRESHOLD, US_THRESHOLD, NS_THRESHOLD, Machine
<1>4. ASSUME NEW r \in 0 .. 999 PROVE NormalizeToMicros(1000 * t + r) = t
  BY SMT DEF NormalizeToMicros, MS_THRESHOLD, US_THRESHOLD, NS_THRESHOLD
<1>5. QED  BY <1>1, <1>2, <1>3, <1>4

-----------------------------------------------------------------------------
(***************************************************************************)
(* What the store gives back is what was recorded, whatever the records,   *)
(* the grouping into files and the window of the query.                    *)
(***************************************************************************)

\* The marks are none of the values they stand beside.
Marks ==
    /\ Machine
    /\ None # Invalid
    /\ Invalid \notin BookKinds \cup Sides \cup DataSources \cup Fidelities \cup IngestKinds \cup ReplayModes
    /\ Invalid \notin Seq(PriceLevel)
    /\ None \notin Sides \cup Nat \cup Str
    /\ InvalidTimestamp \notin Int /\ MaxTimestamp \in Nat

Numbered(p, n, k) ==
    [recv |-> p.recv, exch |-> p.exch, source |-> p.source, event |-> p.event,
     session |-> p.session, sequence |-> n, ordinal |-> k]

\* What a dataset keeps of a record: the arrival ordinal with the book's events only,
\* and no sequence number with a checkpoint.
Kept(r) ==
    LET e == r.event
    IN  CASE r.dataset \in {"trade_events", "ingest_events"} ->
               [e EXCEPT !.provenance = Numbered(e.provenance, e.provenance.sequence, None)]
          [] r.dataset = "book_checkpoints" ->
               [e EXCEPT !.provenance = Numbered(e.provenance, None, None)]
          [] OTHER -> e

-----------------------------------------------------------------------------
\* A code that no other value shares is read as the value it was written for.
LEMMA CodeRead ==
    ASSUME NEW code, NEW x \in DOMAIN code, \A y \in DOMAIN code : code[y] = code[x] => y = x
    PROVE  Parse(code, code[x]) = x
BY DEF Parse

\* This holds of every enumeration of the schemas.
LEMMA CodesRead ==
    /\ \A x \in BookKinds : ParseBookKind(BookKindCode[x]) = x
    /\ \A x \in Sides : ParseSide(SideCode[x]) = x
    /\ \A x \in DataSources : ParseSource(SourceName[x]) = x
    /\ \A x \in Fidelities : ParseTradeFidelity(FidelityName[x]) = x
    /\ \A x \in IngestKinds : ParseIngestKind(IngestKindName[x]) = x
    /\ \A x \in ReplayModes : ParseReplayMode(ReplayModeName[x]) = x
<1>1. ASSUME NEW x \in BookKinds PROVE ParseBookKind(BookKindCode[x]) = x
  BY CodeRead DEF ParseBookKind, BookKindCode, BookKinds
<1>2. ASSUME NEW x \in Sides PROVE ParseSide(SideCode[x]) = x
  BY CodeRead DEF ParseSide, SideCode, Sides
<1>3. ASSUME NEW x \in DataSources PROVE ParseSource(SourceName[x]) = x
  BY CodeRead DEF ParseSource, SourceName, DataSources
<1>4. ASSUME NEW x \in Fidelities PROVE ParseTradeFidelity(FidelityName[x]) = x
  BY CodeRead DEF ParseTradeFidelity, FidelityName, Fidelities
<1>5. ASSUME NEW x \in IngestKinds PROVE ParseIngestKind(IngestKindName[x]) = x
  BY CodeRead DEF ParseIngestKind, IngestKindName, IngestKinds
<1>6. ASSUME NEW x \in ReplayModes PROVE ParseReplayMode(ReplayModeName[x]) = x
  BY CodeRead DEF ParseReplayMode, ReplayModeName, ReplayModes
<1>7. QED  BY <1>1, <1>2, <1>3, <1>4, <1>5, <1>6

\* FixedPrice::new accepts what is a price.
LEMMA PriceKept == ASSUME Machine, NEW p \in Prices PROVE NewPrice(p) = p /\ p # Invalid
BY DEF NewPrice, Prices, PRICE_SCALE, Machine

\* The levels of a checkpoint survive their JSON.
LEMMA LevelsKept ==
    ASSUME Machine, NEW levels \in Seq(PriceLevel)
    PROVE  ParseLevels(LevelsJson(levels)) = levels
<1>. DEFINE json == LevelsJson(levels)
            back == [i \in DOMAIN json |-> [price |-> DeserializePrice(json[i].price, TRUE),
                                            size |-> DeserializeSize(json[i].size, TRUE)]]
<1>1. DOMAIN json = DOMAIN levels
  BY DEF LevelsJson
<1>2. ASSUME NEW i \in DOMAIN levels
      PROVE  /\ back[i] = levels[i]
             /\ back[i].price # Invalid /\ back[i].size # Invalid
  <2>1. levels[i] \in PriceLevel
    OBVIOUS
  <2>2. /\ json[i].price = SerializePrice(levels[i].price, TRUE)
        /\ json[i].size = SerializeSize(levels[i].size, TRUE)
    BY DEF LevelsJson
  <2>3. /\ levels[i].price \in Prices /\ levels[i].size \in Sizes
        /\ levels[i] = [price |-> levels[i].price, size |-> levels[i].size]
    BY <2>1 DEF PriceLevel
  <2>4. /\ DeserializePrice(json[i].price, TRUE) = levels[i].price
        /\ DeserializeSize(json[i].size, TRUE) = levels[i].size
    BY <2>2, <2>3, PricesRoundTrip, SizesRoundTrip
  <2>5. levels[i].price # Invalid /\ levels[i].size # Invalid
    BY <2>3 DEF Machine, Prices, Sizes
  <2>6. back[i] = [price |-> DeserializePrice(json[i].price, TRUE),
                   size |-> DeserializeSize(json[i].size, TRUE)]
    BY <1>1
  <2>7. back[i] = levels[i]
    BY <2>3, <2>4, <2>6, Zenon
  <2>8. QED  BY <2>5, <2>7
<1>3. back = levels
  <2>1. levels = [i \in DOMAIN levels |-> levels[i]]
    OBVIOUS
  <2>2. DOMAIN back = DOMAIN levels
    BY <1>1
  <2>. HIDE DEF back
  <2>3. back = [i \in DOMAIN back |-> back[i]]
    BY DEF back
  <2>4. QED  BY <1>2, <2>1, <2>2, <2>3
<1>4. ParseLevels(json) = back
  <2>1. ~ \E i \in DOMAIN json : back[i].price = Invalid \/ back[i].size = Invalid
    BY <1>1, <1>2
  <2>. HIDE DEF json
  <2>2. QED  BY <2>1 DEF ParseLevels
<1>5. QED  BY <1>3, <1>4

\* The provenance of a row is the one that was written, with the numbers its dataset has.
LEMMA ProvenanceKept ==
    ASSUME Marks, NEW p \in EventProvenance, NEW row, NEW n, NEW k,
           row.recv_timestamp_us = p.recv, row.exchange_timestamp_us = p.exch,
           row.source = SourceName[p.source], row.source_event_id = p.event,
           row.source_session_id = p.session
    PROVE  /\ Provenance(row, n, k) = Numbered(p, n, k)
           /\ Provenance(row, n, k).source # Invalid
<1>1. p = [recv |-> p.recv, exch |-> p.exch, source |-> p.source, event |-> p.event,
           session |-> p.session, sequence |-> p.sequence, ordinal |-> p.ordinal]
      /\ p.source \in DataSources
  BY DEF EventProvenance
<1>2. ParseSource(row.source) = p.source /\ p.source # Invalid
  BY <1>1, CodesRead DEF Marks
<1>3. QED  BY <1>2 DEF Provenance, Numbered

\* A provenance keeps its numbers where the dataset has both columns.
LEMMA Renumbered ==
    ASSUME NEW p \in EventProvenance
    PROVE  Numbered(p, p.sequence, p.ordinal) = p
BY DEF EventProvenance, Numbered

\* A book event survives its row.
LEMMA BookKept ==
    ASSUME Marks, NEW e \in BookEvent
    PROVE  BookOf(BookRow(e)) = e /\ ~Broken(BookOf(BookRow(e)))
<1>. DEFINE row == BookRow(e)
<1>1. /\ e = [asset |-> e.asset, kind |-> e.kind, side |-> e.side, price |-> e.price,
              size |-> e.size, provenance |-> e.provenance]
      /\ e.kind \in BookKinds /\ e.side \in Sides /\ e.price \in Prices
      /\ e.provenance \in EventProvenance
  BY DEF BookEvent
<1>2. /\ ParseBookKind(row.event_kind) = e.kind /\ ParseSide(row.side) = e.side
      /\ NewPrice(row.price) = e.price
  BY <1>1, CodesRead, PriceKept DEF BookRow, Marks
<1>3. Column(row, "ingest_ordinal") = e.provenance.ordinal /\ row.sequence = e.provenance.sequence
  BY DEF Column, BookRow
<1>4. /\ Provenance(row, row.sequence, Column(row, "ingest_ordinal")) = e.provenance
      /\ e.provenance.source # Invalid
  <2>1. /\ row.recv_timestamp_us = e.provenance.recv /\ row.exchange_timestamp_us = e.provenance.exch
        /\ row.source = SourceName[e.provenance.source] /\ row.source_event_id = e.provenance.event
        /\ row.source_session_id = e.provenance.session
    BY DEF BookRow
  <2>. HIDE DEF row
  <2>2. /\ Provenance(row, row.sequence, Column(row, "ingest_ordinal"))
             = Numbered(e.provenance, e.provenance.sequence, e.provenance.ordinal)
        /\ Provenance(row, row.sequence, Column(row, "ingest_ordinal")).source # Invalid
    BY <1>1, <1>3, <2>1, ProvenanceKept
  <2>3. QED  BY <1>1, <2>2, Renumbered
<1>5. /\ row.asset_id = e.asset /\ row.size = e.size
  BY DEF BookRow
<1>. HIDE DEF row
<1>6. BookOf(row) = e
  BY <1>1, <1>2, <1>4, <1>5 DEF BookOf
<1>7. DOMAIN e \cap {"kind", "side", "price", "fidelity", "mode", "bids", "asks"}
        = {"kind", "side", "price"}
  BY <1>1
<1>8. e.kind # Invalid /\ e.side # Invalid /\ e.price # Invalid
  BY <1>1, PriceKept DEF Marks
<1>9. ~Broken(e)
  BY <1>4, <1>7, <1>8 DEF Broken
<1>10. QED  BY <1>6, <1>9 DEF row

\* A trade survives its row, the ordinal apart.
LEMMA TradeKept ==
    ASSUME Marks, NEW e \in TradeEvent
    PROVE  /\ TradeOf(TradeRow(e))
                = [e EXCEPT !.provenance = Numbered(e.provenance, e.provenance.sequence, None)]
           /\ ~Broken(TradeOf(TradeRow(e)))
<1>. DEFINE row == TradeRow(e)
            p == Numbered(e.provenance, e.provenance.sequence, None)
            kept == [asset |-> e.asset, price |-> e.price, size |-> e.size, side |-> e.side,
                     trade |-> e.trade, fidelity |-> e.fidelity, provenance |-> p]
<1>1. /\ [e EXCEPT !.provenance = p] = kept
      /\ e.side \in Maybe(Sides) /\ e.price \in Prices /\ e.fidelity \in Fidelities
      /\ e.provenance \in EventProvenance
  BY DEF TradeEvent
<1>2. ParseSideOrNull(row.side) = e.side
  <2>1. CASE e.side = None
    BY <2>1 DEF TradeRow, SideOrNull, ParseSideOrNull
  <2>2. CASE e.side \in Sides
    <3>1. row.side = SideCode[e.side] /\ row.side # None
      <4>1. e.side # None
        BY <2>2 DEF Marks
      <4>2. row.side = SideCode[e.side]
        BY <4>1 DEF TradeRow, SideOrNull
      <4>3. QED  BY <4>2, <2>2 DEF SideCode, Sides, Marks
    <3>2. QED  BY <2>2, <3>1, CodesRead DEF ParseSideOrNull
  <2>3. QED  BY <1>1, <2>1, <2>2 DEF Maybe
<1>3. NewPrice(row.price) = e.price /\ ParseTradeFidelity(row.fidelity) = e.fidelity
  BY <1>1, CodesRead, PriceKept DEF TradeRow, Marks
<1>4. /\ row.recv_timestamp_us = e.provenance.recv /\ row.exchange_timestamp_us = e.provenance.exch
      /\ row.source = SourceName[e.provenance.source] /\ row.source_event_id = e.provenance.event
      /\ row.source_session_id = e.provenance.session /\ row.sequence = e.provenance.sequence
      /\ row.asset_id = e.asset /\ row.size = e.size /\ row.trade_id = e.trade
  BY DEF TradeRow
<1>. HIDE DEF row
<1>5. Provenance(row, row.sequence, None) = p /\ p.source # Invalid
  BY <1>1, <1>4, ProvenanceKept
<1>6. TradeOf(row) = kept
  BY <1>2, <1>3, <1>4, <1>5 DEF TradeOf
<1>7. DOMAIN kept \cap {"kind", "side", "price", "fidelity", "mode", "bids", "asks"}
        = {"side", "price", "fidelity"}
  OBVIOUS
<1>8. e.side # Invalid /\ e.price # Invalid /\ e.fidelity # Invalid
  BY <1>1, PriceKept DEF Marks, Maybe
<1>9. ~Broken(kept)
  BY <1>5, <1>7, <1>8 DEF Broken
<1>10. QED  BY <1>1, <1>6, <1>9 DEF row

\* An ingest event survives its row, the ordinal apart.
LEMMA IngestKept ==
    ASSUME Marks, NEW e \in IngestEvent
    PROVE  /\ IngestOf(IngestRow(e))
                = [e EXCEPT !.provenance = Numbered(e.provenance, e.provenance.sequence, None)]
           /\ ~Broken(IngestOf(IngestRow(e)))
<1>. DEFINE row == IngestRow(e)
            p == Numbered(e.provenance, e.provenance.sequence, None)
            kept == [asset |-> e.asset, kind |-> e.kind, provenance |-> p, expected |-> e.expected,
                     observed |-> e.observed, details |-> e.details]
<1>1. /\ [e EXCEPT !.provenance = p] = kept
      /\ e.kind \in IngestKinds /\ e.provenance \in EventProvenance
  BY DEF IngestEvent
<1>2. ParseIngestKind(row.event_kind) = e.kind
  BY <1>1, CodesRead DEF IngestRow
<1>3. /\ row.recv_timestamp_us = e.provenance.recv /\ row.exchange_timestamp_us = e.provenance.exch
      /\ row.source = SourceName[e.provenance.source] /\ row.source_event_id = e.provenance.event
      /\ row.source_session_id = e.provenance.session /\ row.sequence = e.provenance.sequence
      /\ row.asset_id = e.asset /\ row.expected_sequence = e.expected
      /\ row.observed_sequence = e.observed /\ row.details = e.details
  BY DEF IngestRow
<1>. HIDE DEF row
<1>4. Provenance(row, row.sequence, None) = p /\ p.source # Invalid
  BY <1>1, <1>3, ProvenanceKept
<1>5. IngestOf(row) = kept
  BY <1>2, <1>3, <1>4 DEF IngestOf
<1>6. DOMAIN kept \cap {"kind", "side", "price", "fidelity", "mode", "bids", "asks"} = {"kind"}
  OBVIOUS
<1>7. e.kind # Invalid
  BY <1>1 DEF Marks
<1>8. ~Broken(kept)
  BY <1>4, <1>6, <1>7 DEF Broken
<1>9. QED  BY <1>1, <1>5, <1>8 DEF row

\* A checkpoint survives its row, the sequence number and the ordinal apart.
LEMMA CheckpointKept ==
    ASSUME Marks, NEW c \in BookCheckpoint
    PROVE  /\ CheckpointOf(CheckpointRow(c))
                = [c EXCEPT !.provenance = Numbered(c.provenance, None, None)]
           /\ ~Broken(CheckpointOf(CheckpointRow(c)))
<1>. DEFINE row == CheckpointRow(c)
            p == Numbered(c.provenance, None, None)
            kept == [asset |-> c.asset, at |-> c.at, provenance |-> p, bids |-> c.bids,
                     asks |-> c.asks, walOffset |-> c.walOffset]
<1>1. /\ [c EXCEPT !.provenance = p] = kept
      /\ c.bids \in Seq(PriceLevel) /\ c.asks \in Seq(PriceLevel)
      /\ c.provenance \in EventProvenance
  BY DEF BookCheckpoint
<1>2. ParseLevels(row.bids_json) = c.bids /\ ParseLevels(row.asks_json) = c.asks
  BY <1>1, LevelsKept DEF CheckpointRow, Marks
<1>3. /\ row.recv_timestamp_us = c.provenance.recv /\ row.exchange_timestamp_us = c.provenance.exch
      /\ row.source = SourceName[c.provenance.source] /\ row.source_event_id = c.provenance.event
      /\ row.source_session_id = c.provenance.session /\ row.asset_id = c.asset
      /\ row.checkpoint_timestamp_us = c.at /\ Column(row, "wal_offset") = c.walOffset
  BY DEF CheckpointRow, Column
<1>. HIDE DEF row
<1>4. Provenance(row, None, None) = p /\ p.source # Invalid
  BY <1>1, <1>3, ProvenanceKept
<1>5. CheckpointOf(row) = kept
  BY <1>2, <1>3, <1>4 DEF CheckpointOf
<1>6. DOMAIN kept \cap {"kind", "side", "price", "fidelity", "mode", "bids", "asks"} = {"bids", "asks"}
  OBVIOUS
<1>7. c.bids # Invalid /\ c.asks # Invalid
  BY <1>1 DEF Marks
<1>8. ~Broken(kept)
  BY <1>4, <1>6, <1>7 DEF Broken
<1>9. QED  BY <1>1, <1>5, <1>8 DEF row

\* A validation survives its row.
LEMMA ValidationKept ==
    ASSUME Marks, NEW v \in ReplayValidation
    PROVE  ValidationOf(ValidationRow(v)) = v /\ ~Broken(ValidationOf(ValidationRow(v)))
<1>1. /\ v = [asset |-> v.asset, mode |-> v.mode, replay |-> v.replay, reference |-> v.reference,
              matched |-> v.matched, mismatch |-> v.mismatch, persisted |-> v.persisted]
      /\ v.mode \in ReplayModes /\ v.mode # Invalid
  BY DEF ReplayValidation, Marks
<1>2. ParseReplayMode(ReplayModeName[v.mode]) = v.mode
  BY <1>1, CodesRead
<1>3. ValidationOf(ValidationRow(v)) = v
  BY <1>1, <1>2 DEF ValidationOf, ValidationRow
<1>4. DOMAIN v \cap {"kind", "side", "price", "fidelity", "mode", "bids", "asks"} = {"mode"}
      /\ "provenance" \notin DOMAIN v
  BY <1>1
<1>5. ~Broken(v)
  BY <1>1, <1>4 DEF Broken
<1>6. QED  BY <1>3, <1>5

\* Whatever record is written, its row is found by its time and its asset, and reads back
\* as the record, but for what its dataset does not keep (schema.rs, the extractors of
\* reader.rs).
THEOREM RecordsRoundTrip ==
    ASSUME Marks, NEW r \in PersistedRecord
    PROVE  /\ RecordOf(r.dataset, RowOf(r)) = Kept(r)
           /\ ~Broken(RecordOf(r.dataset, RowOf(r)))
           /\ RowTime(r.dataset, RowOf(r)) = PartitionTimestampUs(r)
           /\ RowOf(r).asset_id = r.event.asset
<1>1. CASE r.dataset = "book_events" /\ r.event \in BookEvent
  <2>1. RowOf(r) = BookRow(r.event) /\ Kept(r) = r.event
    BY <1>1 DEF RowOf, Kept
  <2>2. /\ RecordOf(r.dataset, RowOf(r)) = BookOf(BookRow(r.event))
        /\ RowTime(r.dataset, RowOf(r)) = BookRow(r.event).recv_timestamp_us
        /\ PartitionTimestampUs(r) = r.event.provenance.recv
    BY <1>1, <2>1 DEF RecordOf, RowTime, PartitionTimestampUs
  <2>3. QED  BY <1>1, <2>1, <2>2, BookKept DEF BookRow
<1>2. CASE r.dataset = "trade_events" /\ r.event \in TradeEvent
  <2>1. /\ RowOf(r) = TradeRow(r.event)
        /\ Kept(r) = [r.event EXCEPT !.provenance =
                        Numbered(r.event.provenance, r.event.provenance.sequence, None)]
    BY <1>2 DEF RowOf, Kept
  <2>2. /\ RecordOf(r.dataset, RowOf(r)) = TradeOf(TradeRow(r.event))
        /\ RowTime(r.dataset, RowOf(r)) = TradeRow(r.event).recv_timestamp_us
        /\ PartitionTimestampUs(r) = r.event.provenance.recv
    BY <1>2, <2>1 DEF RecordOf, RowTime, PartitionTimestampUs
  <2>3. QED  BY <1>2, <2>1, <2>2, TradeKept DEF TradeRow
<1>3. CASE r.dataset = "ingest_events" /\ r.event \in IngestEvent
  <2>1. /\ RowOf(r) = IngestRow(r.event)
        /\ Kept(r) = [r.event EXCEPT !.provenance =
                        Numbered(r.event.provenance, r.event.provenance.sequence, None)]
    BY <1>3 DEF RowOf, Kept
  <2>2. /\ RecordOf(r.dataset, RowOf(r)) = IngestOf(IngestRow(r.event))
        /\ RowTime(r.dataset, RowOf(r)) = IngestRow(r.event).recv_timestamp_us
        /\ PartitionTimestampUs(r) = r.event.provenance.recv
    BY <1>3, <2>1 DEF RecordOf, RowTime, PartitionTimestampUs
  <2>3. QED  BY <1>3, <2>1, <2>2, IngestKept DEF IngestRow
<1>4. CASE r.dataset = "book_checkpoints" /\ r.event \in BookCheckpoint
  <2>1. /\ RowOf(r) = CheckpointRow(r.event)
        /\ Kept(r) = [r.event EXCEPT !.provenance = Numbered(r.event.provenance, None, None)]
    BY <1>4 DEF RowOf, Kept
  <2>2. /\ RecordOf(r.dataset, RowOf(r)) = CheckpointOf(CheckpointRow(r.event))
        /\ RowTime(r.dataset, RowOf(r)) = CheckpointRow(r.event).checkpoint_timestamp_us
        /\ PartitionTimestampUs(r) = r.event.at
    BY <1>4, <2>1 DEF RecordOf, RowTime, PartitionTimestampUs
  <2>3. QED  BY <1>4, <2>1, <2>2, CheckpointKept DEF CheckpointRow
<1>5. CASE r.dataset = "replay_validations" /\ r.event \in ReplayValidation
  <2>1. RowOf(r) = ValidationRow(r.event) /\ Kept(r) = r.event
    BY <1>5 DEF RowOf, Kept
  <2>2. /\ RecordOf(r.dataset, RowOf(r)) = ValidationOf(ValidationRow(r.event))
        /\ RowTime(r.dataset, RowOf(r)) = ValidationRow(r.event).persisted_at_us
        /\ PartitionTimestampUs(r) = r.event.persisted
    BY <1>5, <2>1 DEF RecordOf, RowTime, PartitionTimestampUs
  <2>3. QED  BY <1>5, <2>1, <2>2, ValidationKept DEF ValidationRow
<1>6. QED  BY <1>1, <1>2, <1>3, <1>4, <1>5 DEF PersistedRecord

\* The records a query is about.
About(r, a, from, to) ==
    /\ from <= PartitionTimestampUs(r) /\ PartitionTimestampUs(r) <= to
    /\ r.event.asset = a \/ (r.dataset = "ingest_events" /\ r.event.asset = None)

\* What was read answers the query from these records: exactly those it is about, as written.
Answers(read, records, a, from, to) ==
    /\ read.ok
    /\ \A i : i \in DOMAIN read.rows <=> i \in DOMAIN records /\ About(records[i], a, from, to)
    /\ \A i \in DOMAIN read.rows : read.rows[i] = Kept(records[i])

\* A batch answers with exactly its records of the asset in the window, and never fails on
\* what was written (the extract_* functions against the *_record_batch ones).
THEOREM ExtractIsComplete ==
    ASSUME Marks, NEW records \in Seq(PersistedRecord), IsBatch(records), NEW a, NEW from, NEW to
    PROVE  Answers(Extract(records[1].dataset, ToRecordBatch(records), a, from, to),
                   records, a, from, to)
<1>. DEFINE d == records[1].dataset
            batch == ToRecordBatch(records)
            rows == Wanted(d, batch, a, from, to)
            read == Extract(d, batch, a, from, to)
<1>1. DOMAIN batch = DOMAIN records
  BY DEF ToRecordBatch
<1>2. ASSUME NEW i \in DOMAIN records
      PROVE  /\ records[i].dataset = d
             /\ RecordOf(d, batch[i]) = Kept(records[i]) /\ ~Broken(RecordOf(d, batch[i]))
             /\ RowTime(d, batch[i]) = PartitionTimestampUs(records[i])
             /\ batch[i].asset_id = records[i].event.asset
  <2>1. records[i] \in PersistedRecord /\ records[i].dataset = d /\ batch[i] = RowOf(records[i])
    BY DEF IsBatch, ToRecordBatch
  <2>2. QED  BY <2>1, RecordsRoundTrip
<1>. HIDE DEF batch
<1>3. \A i : i \in rows <=> i \in DOMAIN records /\ About(records[i], a, from, to)
  BY <1>1, <1>2 DEF Wanted, IsAbout, About
<1>. HIDE DEF rows
<1>4. read = [ok |-> \A i \in rows : ~Broken(RecordOf(d, batch[i])),
              rows |-> [i \in rows |-> RecordOf(d, batch[i])]]
  BY Zenon DEF Extract, rows
<1>. HIDE DEF read
<1>5. read.ok
  BY <1>2, <1>3, <1>4
<1>6. DOMAIN read.rows = rows /\ \A i \in rows : read.rows[i] = RecordOf(d, batch[i])
  BY <1>4
<1>7. \A i \in rows : read.rows[i] = Kept(records[i])
  BY <1>2, <1>3, <1>6
<1>8. QED  BY <1>3, <1>5, <1>6, <1>7 DEF Answers, read, batch, d

\* Later times are in no earlier hour.
LEMMA HourMonotone ==
    ASSUME NEW t \in Nat, NEW u \in Nat, t <= u
    PROVE  Hour(t) \in Nat /\ Hour(u) \in Nat /\ Hour(t) <= Hour(u)
BY SMT DEF Hour

\* The time a record is filed under is a number.
LEMMA TimesAreNumbers ==
    ASSUME NEW r \in PersistedRecord
    PROVE  PartitionTimestampUs(r) \in Nat
<1>1. U64 \subseteq Nat
  BY DEF U64
<1>2. CASE r.dataset \in {"book_events", "trade_events", "ingest_events"}
  BY <1>1, <1>2 DEF PersistedRecord, PartitionTimestampUs, BookEvent, TradeEvent, IngestEvent,
                    EventProvenance
<1>3. CASE r.dataset = "book_checkpoints"
  BY <1>1, <1>3 DEF PersistedRecord, PartitionTimestampUs, BookCheckpoint
<1>4. CASE r.dataset = "replay_validations"
  BY <1>1, <1>4 DEF PersistedRecord, PartitionTimestampUs, ReplayValidation
<1>5. QED  BY <1>2, <1>3, <1>4 DEF PersistedRecord

\* Where the records of a group are: in the file of their asset and hour.
LEMMA Filed ==
    ASSUME Marks, NEW records \in Seq(PersistedRecord), IsGroup(records), NEW i \in DOMAIN records
    PROVE  /\ FileOf(records).version = EXPECTED_PARQUET_SCHEMA_VERSION
           /\ FileOf(records).dataset = records[i].dataset
           /\ FileOf(records).key = AssetPartition(records[i])
           /\ FileOf(records).hour = PartitionHourKey(PartitionTimestampUs(records[i]))
           /\ FileOf(records).batch = ToRecordBatch(records)
BY DEF FileOf, IsGroup, IsBatch, PB_SCHEMA_VERSION, EXPECTED_PARQUET_SCHEMA_VERSION

\* The file of a group answers a query as the group's batch does.
LEMMA FileAnswers ==
    ASSUME Marks, NEW rs \in Seq(PersistedRecord), IsGroup(rs), NEW a, NEW from, NEW to
    PROVE  Answers(ReadParquetFile(FileOf(rs), a, from, to), rs, a, from, to)
<1>. DEFINE e == Extract(rs[1].dataset, ToRecordBatch(rs), a, from, to)
            r == ReadParquetFile(FileOf(rs), a, from, to)
<1>1. /\ FileOf(rs).version = EXPECTED_PARQUET_SCHEMA_VERSION
      /\ FileOf(rs).dataset = rs[1].dataset /\ FileOf(rs).batch = ToRecordBatch(rs)
  BY DEF FileOf, PB_SCHEMA_VERSION, EXPECTED_PARQUET_SCHEMA_VERSION
<1>2. Answers(e, rs, a, from, to)
  BY ExtractIsComplete DEF IsGroup
<1>3. DOMAIN e = {"ok", "rows"}
  BY DEF Extract
<1>4. r = [e EXCEPT !.ok = CheckSchemaVersion(FileOf(rs)) /\ @]
  BY <1>1 DEF ReadParquetFile
<1>. HIDE DEF e
<1>5. r.ok = (CheckSchemaVersion(FileOf(rs)) /\ e.ok) /\ r.rows = e.rows
  BY <1>3, <1>4
<1>6. CheckSchemaVersion(FileOf(rs))
  BY <1>1 DEF CheckSchemaVersion
<1>. HIDE DEF r
<1>7. Answers(r, rs, a, from, to)
  BY <1>2, <1>5, <1>6 DEF Answers
<1>8. QED  BY <1>7 DEF r

\* What a query of the dataset read of a group: exactly what it asks for and is plausible,
\* as written, and an error only for too many rows.
ReadOfGroup(read, records, a, from, to) ==
    /\ \A i \in DOMAIN records :
          << FileOf(records), i >> \in DOMAIN read.rows
             <=> About(records[i], a, from, to) /\ Plausible(PartitionTimestampUs(records[i]))
    /\ \A i \in DOMAIN records :
          << FileOf(records), i >> \in DOMAIN read.rows
             => read.rows[<< FileOf(records), i >>] = Kept(records[i])
    /\ read.ok <=> Cardinality(DOMAIN read.rows) <= MAX_PARQUET_DATASET_ROWS

\* A query of a dataset answers with exactly the records of the asset whose time lies in
\* the window and is plausible, from whatever files they were grouped into, and fails only
\* if they are too many: never with a part of them (dataset_files, read_parquet_files).
THEOREM QueryIsComplete ==
    ASSUME Marks, NEW store, NEW a \in Str, NEW from \in Nat, NEW to \in Nat, to <= MaxTimestamp,
           \A file \in store : \E records \in Seq(PersistedRecord) :
               IsGroup(records) /\ file = FileOf(records),
           NEW records \in Seq(PersistedRecord), IsGroup(records), FileOf(records) \in store
    PROVE  ReadOfGroup(ReadDataset(store, records[1].dataset, a, from, to), records, a, from, to)
<1>. DEFINE d == records[1].dataset
            file == FileOf(records)
            files == DatasetFiles(store, d, a, from, to)
            Read(f) == ReadParquetFile(f, a, from, to)
            found == UNION {{<< f, i >> : i \in DOMAIN Read(f).rows} : f \in files}
            read == ReadDataset(store, d, a, from, to)
<1>1. ASSUME NEW rs \in Seq(PersistedRecord), IsGroup(rs)
      PROVE  /\ Read(FileOf(rs)).ok
             /\ \A i : i \in DOMAIN Read(FileOf(rs)).rows
                        <=> i \in DOMAIN rs /\ About(rs[i], a, from, to)
             /\ \A i \in DOMAIN Read(FileOf(rs)).rows : Read(FileOf(rs)).rows[i] = Kept(rs[i])
  BY <1>1, FileAnswers DEF Answers
<1>2. /\ DOMAIN read.rows = found
      /\ \A at \in found : read.rows[at] = Read(at[1]).rows[at[2]]
      /\ read.ok <=> (\A f \in files : Read(f).ok) /\ Cardinality(found) <= MAX_PARQUET_DATASET_ROWS
  BY DEF ReadDataset, ReadParquetFiles
<1>. HIDE DEF read, found
<1>3. \A f \in files : Read(f).ok
  <2>1. \A f \in files : f \in store
    BY DEF DatasetFiles
  <2>2. QED  BY <1>1, <2>1
<1>4. ASSUME NEW i \in DOMAIN records
      PROVE  << file, i >> \in found <=> file \in files /\ About(records[i], a, from, to)
  <2>1. i \in DOMAIN Read(file).rows <=> About(records[i], a, from, to)
    BY <1>1
  <2>. HIDE DEF Read, file, files
  <2>2. << file, i >> \in found <=> file \in files /\ i \in DOMAIN Read(file).rows
    BY DEF found
  <2>3. QED  BY <2>1, <2>2
<1>5. ASSUME NEW i \in DOMAIN records, About(records[i], a, from, to)
      PROVE  file \in files <=> Plausible(PartitionTimestampUs(records[i]))
  <2>. DEFINE t == PartitionTimestampUs(records[i])
  <2>1. t \in Nat /\ from <= t /\ t <= to /\ records[i] \in PersistedRecord /\ records[i].dataset = d
    BY <1>5, TimesAreNumbers DEF About, IsGroup, IsBatch
  <2>2. file.dataset = d /\ file.key = AssetPartition(records[i]) /\ file.hour = PartitionHourKey(t)
    BY <2>1, Filed
  <2>3. d # "ingest_events" => file.key = a
    <3>1. ASSUME d # "ingest_events" PROVE file.key = a
      <4>1. records[i].event.asset = a
        BY <1>5, <2>1, <3>1 DEF About
      <4>2. QED  BY <2>2, <4>1 DEF AssetPartition, Marks
    <3>2. QED  BY <3>1
  <2>4. file \in files <=> file.hour \in HourPaths(from, to)
    BY <2>2, <2>3 DEF DatasetFiles
  <2>5. Hour(from) \in Nat /\ Hour(to) \in Nat /\ Hour(t) \in Hour(from) .. Hour(to)
    BY <2>1, HourMonotone
  <2>8. HourOf(from) = Hour(from) /\ HourOf(to) = Hour(to)
    BY <2>1 DEF HourOf, Marks
  <2>6. InvalidTimestamp \notin Hour(from) .. Hour(to)
    BY <2>5 DEF Marks
  <2>7. QED  BY <2>2, <2>4, <2>5, <2>6, <2>8 DEF PartitionHourKey, HourPaths
<1>6. \A i \in DOMAIN records :
         << file, i >> \in found <=> /\ About(records[i], a, from, to)
                                    /\ Plausible(PartitionTimestampUs(records[i]))
  BY <1>4, <1>5
<1>7. \A i \in DOMAIN records : << file, i >> \in found => read.rows[<< file, i >>] = Kept(records[i])
  <2>1. \A i \in DOMAIN records : About(records[i], a, from, to) => Read(file).rows[i] = Kept(records[i])
    BY <1>1
  <2>. HIDE DEF Read, file, files
  <2>2. QED  BY <1>2, <1>4, <2>1
<1>8. read.ok <=> Cardinality(DOMAIN read.rows) <= MAX_PARQUET_DATASET_ROWS
  BY <1>2, <1>3
<1>. HIDE DEF file
<1>9. DOMAIN read.rows = found
  BY <1>2
<1>. HIDE DEF found
<1>10. QED  BY <1>6, <1>7, <1>8, <1>9 DEF ReadOfGroup, read, file, d

\* What is read of a file is there under the file and the row.
LEMMA RowsFound ==
    ASSUME NEW files, NEW a, NEW from, NEW to
    PROVE  LET Read(f) == ReadParquetFile(f, a, from, to)
               rows == ReadParquetFiles(files, a, from, to).rows
           IN  /\ \A x : x \in DOMAIN rows
                           <=> \E f \in files : \E i \in DOMAIN Read(f).rows : x = << f, i >>
               /\ \A x \in DOMAIN rows : rows[x] = Read(x[1]).rows[x[2]]
BY DEF ReadParquetFiles

\* The checkpoint a reconstruction starts from is no newer than the time asked for, and no
\* checkpoint that was recorded until then and is filed under its hour is newer than it,
\* although the search stops at the first hour with any (read_latest_checkpoints).
THEOREM LatestIsNewest ==
    ASSUME Marks, NEW store, NEW a \in Str, NEW at \in Nat, at <= MaxTimestamp,
           \A file \in store : \E records \in Seq(PersistedRecord) :
               IsGroup(records) /\ file = FileOf(records),
           NEW c \in LatestCheckpoints(store, a, at)
    PROVE  /\ c.at <= at
           /\ \A records \in Seq(PersistedRecord) : \A i \in DOMAIN records :
                 /\ IsGroup(records) /\ FileOf(records) \in store
                 /\ records[i].dataset = "book_checkpoints"
                 /\ About(records[i], a, 0, at) /\ Plausible(PartitionTimestampUs(records[i]))
                 => records[i].event.at <= c.at
<1>. DEFINE Rows(h) == InHour(store, a, at, h).rows
            Read(f) == ReadParquetFile(f, a, 0, at)
            Newest(h) == {i \in DOMAIN Rows(h) : \A j \in DOMAIN Rows(h) : Rows(h)[j].at <= Rows(h)[i].at}
<1>0. HourOf(at) = Hour(at)
  BY DEF HourOf
<1>1. PICK h \in 0 .. Hour(at) : EndsAt(store, a, at, h) /\ \E j \in Newest(h) : c = Rows(h)[j]
  BY <1>0 DEF LatestCheckpoints
<1>2. PICK j \in Newest(h) : c = Rows(h)[j]
  BY <1>1
<1>3. ASSUME NEW rs \in Seq(PersistedRecord), NEW i \in DOMAIN rs, IsGroup(rs),
             rs[i].dataset = "book_checkpoints", About(rs[i], a, 0, at)
      PROVE  /\ rs[i].event.at \in Nat /\ rs[i].event.at <= at
             /\ Kept(rs[i]).at = rs[i].event.at
             /\ PartitionTimestampUs(rs[i]) = rs[i].event.at
             /\ FileOf(rs).dataset = "book_checkpoints" /\ FileOf(rs).key = a
             /\ FileOf(rs).hour = PartitionHourKey(rs[i].event.at)
             /\ i \in DOMAIN Read(FileOf(rs)).rows /\ Read(FileOf(rs)).rows[i] = Kept(rs[i])
  <2>1. rs[i] \in PersistedRecord /\ PartitionTimestampUs(rs[i]) = rs[i].event.at
    BY <1>3 DEF PartitionTimestampUs
  <2>2. rs[i].event.at \in Nat /\ rs[i].event.at <= at
    BY <1>3, <2>1, TimesAreNumbers DEF About
  <2>3. Kept(rs[i]).at = rs[i].event.at
    <3>1. rs[i].event \in BookCheckpoint
      BY <1>3, <2>1 DEF PersistedRecord
    <3>2. QED  BY <1>3, <3>1 DEF Kept, BookCheckpoint
  <2>4. rs[i].event.asset = a
    BY <1>3 DEF About
  <2>5. /\ FileOf(rs).dataset = "book_checkpoints" /\ FileOf(rs).key = a
        /\ FileOf(rs).hour = PartitionHourKey(rs[i].event.at)
    BY <1>3, <2>1, <2>4, Filed DEF AssetPartition, Marks
  <2>6. i \in DOMAIN Read(FileOf(rs)).rows /\ Read(FileOf(rs)).rows[i] = Kept(rs[i])
    BY <1>3, FileAnswers DEF Answers
  <2>7. QED  BY <2>1, <2>2, <2>3, <2>5, <2>6
<1>4. c.at \in Nat /\ c.at <= at /\ Hour(c.at) = h
  <2>1. PICK f \in CheckpointFiles(store, a, at, h) : \E i \in DOMAIN Read(f).rows : j = << f, i >>
    BY RowsFound, <1>2 DEF InHour
  <2>2. PICK i \in DOMAIN Read(f).rows : j = << f, i >>
    BY <2>1
  <2>3. c = Read(f).rows[i]
    <3>1. c = Read(j[1]).rows[j[2]]
      BY RowsFound, <1>2 DEF InHour
    <3>2. QED  BY <2>2, <3>1
  <2>4. f \in store /\ f.dataset = "book_checkpoints" /\ f.hour = h
    BY DEF CheckpointFiles
  <2>5. PICK rs \in Seq(PersistedRecord) : IsGroup(rs) /\ f = FileOf(rs)
    BY <2>4
  <2>6. i \in DOMAIN rs /\ About(rs[i], a, 0, at)
    BY <2>5, FileAnswers DEF Answers
  <2>7. rs[i].dataset = "book_checkpoints"
    BY <2>4, <2>5, <2>6, Filed
  <2>8. c.at = rs[i].event.at /\ c.at \in Nat /\ c.at <= at /\ h = PartitionHourKey(c.at)
    BY <1>3, <2>3, <2>4, <2>5, <2>6, <2>7
  <2>9. h \in Int
    BY <1>1
  <2>10. QED  BY <2>8, <2>9 DEF PartitionHourKey, Marks
<1>5. ASSUME NEW rs \in Seq(PersistedRecord), NEW i \in DOMAIN rs, IsGroup(rs), FileOf(rs) \in store,
             rs[i].dataset = "book_checkpoints", About(rs[i], a, 0, at),
             Plausible(PartitionTimestampUs(rs[i]))
      PROVE  rs[i].event.at <= c.at
  <2>. DEFINE t == rs[i].event.at
              g == Hour(t)
              f == FileOf(rs)
              x == << f, i >>
  <2>1. t \in Nat /\ t <= at /\ f.dataset = "book_checkpoints" /\ f.key = a /\ f.hour = g
    BY <1>3, <1>5 DEF PartitionHourKey
  <2>2. g \in Nat /\ g <= Hour(at) /\ Hour(at) \in Nat
    BY <2>1, HourMonotone
  <2>3. x \in DOMAIN Rows(g) /\ Rows(g)[x].at = t
    <3>1. f \in CheckpointFiles(store, a, at, g)
      BY <1>0, <1>5, <2>1, <2>2 DEF CheckpointFiles
    <3>2. i \in DOMAIN Read(f).rows /\ Read(f).rows[i].at = t
      BY <1>3, <1>5
    <3>3. x \in DOMAIN Rows(g) /\ Rows(g)[x] = Read(x[1]).rows[x[2]]
      BY <3>1, <3>2, RowsFound DEF InHour
    <3>4. QED  BY <3>2, <3>3
  <2>4. CASE g > h
    BY <1>0, <1>1, <2>2, <2>3, <2>4 DEF EndsAt
  <2>5. CASE g = h
    BY <1>2, <2>3, <2>5
  <2>6. CASE g < h
    <3>. DEFINE u == c.at
    <3>1. u \in Nat /\ Hour(u) = h
      BY <1>4
    <3>. HIDE DEF t, u
    <3>2. ~(u <= t)
      BY <2>1, <2>2, <2>6, <3>1, HourMonotone
    <3>3. u >= t
      BY <2>1, <3>1, <3>2
    <3>4. QED  BY <3>3 DEF u, t
  <2>7. QED  BY <1>1, <2>2, <2>4, <2>5, <2>6
<1>6. QED  BY <1>4, <1>5

\* A query a client may ask looks into at most 25 hours (validate_time_window), which is
\* what its bound is for.
THEOREM WindowsAreBounded ==
    ASSUME Marks, NEW from \in Nat, NEW to \in Nat, ValidateTimeWindow(from, to)
    PROVE  \A h \in HourPaths(from, to) : h <= HourOf(from) + 24
<1>1. Hour(from) \in Nat /\ Hour(to) \in Nat /\ Hour(to) <= Hour(from) + 24
  BY SMT DEF Hour, ValidateTimeWindow, MAX_QUERY_WINDOW_US
<1>2. HourOf(to) <= HourOf(from) + 24 /\ HourOf(from) \in Nat /\ HourOf(to) \in Nat
  BY <1>1 DEF HourOf, Marks, ValidateTimeWindow
<1>3. QED  BY <1>2 DEF HourPaths

-----------------------------------------------------------------------------
(***************************************************************************)
(* The names of the assets lead back to them, and a history that is called *)
(* complete has no break the feed recorded.                                *)
(***************************************************************************)

\* Every token's slug names the token.
Consistent(reg) ==
    \A t \in DOMAIN reg.tokens :
        reg.tokens[t] \in DOMAIN reg.slugs /\ reg.slugs[reg.tokens[t]] = t

\* A slug that already names a token is not taken for another one.
Untaken(reg, names, ids) ==
    \A i \in DOMAIN names : names[i] \in DOMAIN reg.slugs => reg.slugs[names[i]] = ids[i]

Distinct(names) == \A i, j \in DOMAIN names : names[i] = names[j] => i = j

\* A slug for each outcome.
LEMMA SlugPerOutcome ==
    ASSUME NEW base, NEW n \in Nat
    PROVE  DOMAIN OutcomeSlugs(base, n) = 1 .. n
<1>1. CASE n = 1  BY <1>1 DEF OutcomeSlugs
<1>2. CASE n = 2  BY <1>2 DEF OutcomeSlugs
<1>3. CASE n # 1 /\ n # 2  BY <1>3 DEF OutcomeSlugs
<1>4. QED  BY <1>1, <1>2, <1>3

\* What is inserted is found under its key.
LEMMA InsertedHere ==
    ASSUME NEW map, NEW keys, Distinct(keys), DOMAIN keys \subseteq Nat, NEW values, NEW i \in DOMAIN keys
    PROVE  keys[i] \in DOMAIN Insert(map, keys, values) /\ Insert(map, keys, values)[keys[i]] = values[i]
<1>. DEFINE k == keys[i]
            Mine == {keys[x] : x \in DOMAIN keys}
            Its(x) == keys[x] = k /\ \A j \in DOMAIN keys : keys[j] = k => j <= x
            at == CHOOSE x \in DOMAIN keys : Its(x)
            new == Insert(map, keys, values)
<1>1. Its(i)
  BY DEF Distinct
<1>2. at \in DOMAIN keys /\ Its(at)
  BY <1>1
<1>3. at = i
  BY <1>2 DEF Distinct
<1>4. k \in Mine /\ k \in DOMAIN new /\ new[k] = values[at]
  BY DEF Insert
<1>. HIDE DEF at, new
<1>5. QED  BY <1>3, <1>4 DEF new

\* What else the map has stays.
LEMMA InsertedElsewhere ==
    ASSUME NEW map, NEW keys, NEW values, NEW k, \A i \in DOMAIN keys : keys[i] # k
    PROVE  /\ k \in DOMAIN Insert(map, keys, values) <=> k \in DOMAIN map
           /\ k \in DOMAIN map => Insert(map, keys, values)[k] = map[k]
BY DEF Insert

\* After a market is registered under slugs of its own, each token's slug names that token
\* again, the earlier ones' included (register_market).
THEOREM SlugsNameTheirTokens ==
    ASSUME NEW reg, NEW base, NEW ids \in Seq(Str), Consistent(reg), Distinct(ids),
           Distinct(OutcomeSlugs(base, Len(ids))), Untaken(reg, OutcomeSlugs(base, Len(ids)), ids)
    PROVE  Consistent(RegisterMarket(reg, base, ids))
<1>. DEFINE names == OutcomeSlugs(base, Len(ids))
            new == RegisterMarket(reg, base, ids)
<1>1. DOMAIN names = DOMAIN ids /\ DOMAIN ids \subseteq Nat
  BY SlugPerOutcome
<1>2. new.slugs = Insert(reg.slugs, names, ids) /\ new.tokens = Insert(reg.tokens, ids, names)
  BY DEF RegisterMarket
<1>. HIDE DEF names, new
<1>3. Distinct(names) /\ Untaken(reg, names, ids)
  BY DEF names
<1>4. ASSUME NEW i \in DOMAIN ids
      PROVE  names[i] \in DOMAIN new.slugs /\ new.slugs[names[i]] = ids[i]
  BY <1>1, <1>2, <1>3, InsertedHere
<1>5. ASSUME NEW t \in DOMAIN new.tokens
      PROVE  new.tokens[t] \in DOMAIN new.slugs /\ new.slugs[new.tokens[t]] = t
  <2>1. CASE \E i \in DOMAIN ids : ids[i] = t
    <3>1. PICK i \in DOMAIN ids : ids[i] = t
      BY <2>1
    <3>2. new.tokens[t] = names[i]
      BY <1>1, <1>2, <3>1, InsertedHere
    <3>3. QED  BY <1>4, <3>1, <3>2
  <2>2. CASE \A i \in DOMAIN ids : ids[i] # t
    <3>. DEFINE s == reg.tokens[t]
    <3>1. t \in DOMAIN reg.tokens /\ new.tokens[t] = s
      BY <1>2, <1>5, <2>2, InsertedElsewhere
    <3>2. s \in DOMAIN reg.slugs /\ reg.slugs[s] = t
      BY <3>1 DEF Consistent
    <3>. HIDE DEF s
    <3>3. \A i \in DOMAIN names : names[i] # s
      BY <1>1, <1>3, <2>2, <3>2 DEF Untaken
    <3>4. s \in DOMAIN new.slugs /\ new.slugs[s] = t
      BY <1>2, <3>2, <3>3, InsertedElsewhere
    <3>5. QED  BY <3>1, <3>4
  <2>3. QED  BY <2>1, <2>2
<1>6. QED  BY <1>5 DEF Consistent, new

\* A client that asks for the slug the API shows of an asset asks for that asset, unless the
\* slug looks like a token (resolve_asset_id, slug_for).
THEOREM SlugsLeadBack ==
    ASSUME NEW reg, Consistent(reg), NEW t \in DOMAIN reg.tokens, t # None,
           SlugFor(reg, t) \notin RawTokenIds
    PROVE  ResolveAssetId(reg, SlugFor(reg, t)) = t
BY DEF Consistent, SlugFor, Resolve, ResolveAssetId

-----------------------------------------------------------------------------
\* A summary never overlooks what the store has: it says "Full" only when no reconnect, gap
\* or mismatch of the asset, or of no asset, was recorded in the window, and "Empty" only
\* when no book event was (integrity_summary).
THEOREM FullIsUnbroken ==
    ASSUME Marks, NEW store, NEW a \in Str, NEW from \in Nat, NEW to \in Nat, to <= MaxTimestamp,
           \A file \in store : \E records \in Seq(PersistedRecord) :
               IsGroup(records) /\ file = FileOf(records),
           IntegritySummary(store, a, from, to) # Refused,
           NEW records \in Seq(PersistedRecord), IsGroup(records), FileOf(records) \in store,
           NEW i \in DOMAIN records,
           About(records[i], a, from, to), Plausible(PartitionTimestampUs(records[i]))
    PROVE  LET summary == IntegritySummary(store, a, from, to)
           IN  /\ records[i].dataset = "book_events" => summary.completeness # "Empty"
               /\ records[i].dataset = "ingest_events" /\ records[i].event.kind \in Boundaries
                     => summary.completeness # "Full"
<1>. DEFINE window == ReadMarketData(store, a, from, to)
            validations == ReadDataset(store, "replay_validations", a, from, to)
            ingest == window.rows["ingest_events"]
            Broke == {at \in DOMAIN ingest : ingest[at].kind \in Boundaries}
            summary == IntegritySummary(store, a, from, to)
            x == << FileOf(records), i >>
            d == records[1].dataset
<1>1. summary = BuildIntegritySummary(window.rows, validations.rows)
  BY DEF IntegritySummary
<1>2. summary.completeness = IF DOMAIN window.rows["book_events"] = {} THEN "Empty"
                             ELSE IF Broke # {} THEN "Partial" ELSE "Full"
  BY <1>1 DEF BuildIntegritySummary
<1>3. /\ window.rows["book_events"] = ReadDataset(store, "book_events", a, from, to).rows
      /\ ingest = ReadDataset(store, "ingest_events", a, from, to).rows
  BY DEF ReadMarketData
<1>4. records[i].dataset = d /\ records[i] \in PersistedRecord
  BY DEF IsGroup, IsBatch
<1>5. /\ x \in DOMAIN ReadDataset(store, d, a, from, to).rows
      /\ ReadDataset(store, d, a, from, to).rows[x] = Kept(records[i])
  BY QueryIsComplete DEF ReadOfGroup
<1>. HIDE DEF window, ingest, summary, x, d
<1>6. CASE d = "book_events"
  BY <1>2, <1>3, <1>4, <1>5, <1>6 DEF summary
<1>7. CASE d = "ingest_events"
  <2>1. records[i].event \in IngestEvent
    BY <1>4, <1>7 DEF PersistedRecord
  <2>2. Kept(records[i]).kind = records[i].event.kind
    BY <1>4, <1>7, <2>1 DEF Kept, IngestEvent
  <2>3. records[i].event.kind \in Boundaries => x \in Broke
    BY <1>3, <1>5, <1>7, <2>2
  <2>4. records[i].event.kind \in Boundaries => summary.completeness # "Full"
    BY <1>2, <2>3
  <2>5. QED  BY <1>4, <1>7, <2>4 DEF summary
<1>8. QED  BY <1>4, <1>6, <1>7

-----------------------------------------------------------------------------
(***************************************************************************)
(* How long the WebSocket client waits, and how often the REST client calls.*)
(***************************************************************************)

\* The part without jitter is a number of milliseconds below the ceiling.
LEMMA CappedIsBounded ==
    ASSUME ReconnectAssumptions, NEW attempt \in Nat
    PROVE  Capped(attempt) \in 0 .. Ceiling /\ Ceiling \in Nat /\ Ceiling <= MaxDelay
<1>1. Doubling(attempt) \in Nat
  <2>1. CASE attempt >= 15  BY <2>1 DEF Doubling
  <2>2. CASE attempt < 15
    <3>1. attempt \in 0 .. 14
      BY <2>2
    <3>2. QED  BY <3>1 DEF Doubling
  <2>3. QED  BY <2>1, <2>2
<1>2. BaseDelay \in Nat /\ MaxU64 \in Nat /\ MaxDelay \in Nat
  BY DEF ReconnectAssumptions, Machine
<1>3. BaseDelay * Doubling(attempt) \in Nat
  BY <1>1, <1>2
<1>4. SaturatingMul(BaseDelay, Doubling(attempt)) \in Nat
  BY <1>2, <1>3 DEF SaturatingMul
<1>5. Ceiling \in Nat /\ Ceiling <= MaxDelay
  BY <1>2 DEF Ceiling
<1>6. QED  BY <1>4, <1>5 DEF Capped

\* Whatever the attempt, the client waits no longer than configured (backoff_ms).
THEOREM DelaysAreBounded ==
    ASSUME ReconnectAssumptions, NEW attempt \in Nat, NEW d \in BackoffMs(attempt)
    PROVE  d \in Capped(attempt) .. MaxDelay
<1>1. Capped(attempt) \in Nat /\ Capped(attempt) <= MaxDelay /\ MaxDelay \in Nat
  BY CappedIsBounded DEF ReconnectAssumptions
<1>2. PICK j \in Jitters(attempt) :
         d = IF Capped(attempt) + j > MaxDelay THEN MaxDelay ELSE Capped(attempt) + j
  BY DEF BackoffMs
<1>3. j \in Nat
  BY <1>2 DEF Jitters
<1>. HIDE DEF BackoffMs
<1>4. QED  BY <1>1, <1>2, <1>3

\* At the cap the delays still differ, so that clients which lost the venue together do not
\* all return together (the comment of backoff_ms), if the largest delay is at least 8 ms.
THEOREM JitterAtTheCap ==
    ASSUME ReconnectAssumptions, NEW attempt \in Nat, Capped(attempt) = Ceiling, MaxDelay >= 8
    PROVE  {Ceiling, Ceiling + 1} \subseteq BackoffMs(attempt)
<1>1. MaxDelay \in Nat
  BY DEF ReconnectAssumptions
<1>2. Ceiling \in Nat /\ Ceiling + 1 <= MaxDelay /\ Ceiling >= 6
  BY <1>1 DEF Ceiling
<1>3. 0 \in Jitters(attempt) /\ 1 \in Jitters(attempt)
  BY <1>2 DEF Jitters
<1>. DEFINE Delay(j) == IF Capped(attempt) + j > MaxDelay THEN MaxDelay ELSE Capped(attempt) + j
<1>4. Delay(0) = Ceiling /\ Delay(1) = Ceiling + 1
  BY <1>1, <1>2
<1>5. \A j \in Jitters(attempt) : Delay(j) \in BackoffMs(attempt)
  BY DEF BackoffMs
<1>. HIDE DEF Delay
<1>6. QED  BY <1>3, <1>4, <1>5

-----------------------------------------------------------------------------
(***************************************************************************)
(* The rate of the REST calls.                                             *)
(***************************************************************************)
\* The greater of two numbers.
LEMMA MaxOfTwo ==
    ASSUME NEW x \in Int, NEW y \in Int
    PROVE  /\ Max({x, y}) \in Int /\ Max({x, y}) \in {x, y}
           /\ Max({x, y}) >= x /\ Max({x, y}) >= y
BY DEF Max

\* Products with one factor in common.
LEMMA CommonFactor ==
    ASSUME NEW k \in Nat, NEW m \in Nat, NEW t \in Nat
    PROVE  /\ k * t \in Nat
           /\ k * t + m * t = (k + m) * t
           /\ k * t < m * t => k < m
<1>1. k * t \in Nat /\ m * t \in Nat
  OBVIOUS
<1>2. k * t + m * t = (k + m) * t
  OBVIOUS
<1>3. ASSUME k >= m  PROVE k * t >= m * t
  <2>1. PICK d \in Nat : k = m + d
    BY <1>3
  <2>2. k * t = m * t + d * t /\ d * t \in Nat
    BY <2>1
  <2>3. QED  BY <1>1, <2>2
<1>4. QED  BY <1>1, <1>2, <1>3

\* What with_window makes of a configuration: the calls of a window, rounded down to
\* whole calls per second, are no more than configured.
LEMMA Quota ==
    ASSUME LimiterAssumption
    PROVE  /\ Window \in Nat /\ PerSecond \in Nat /\ PerSecond >= 1 /\ Interval \in Nat
           /\ Window * PerSecond \in Nat
           /\ Max({Requests, Window}) \in Nat /\ Window * PerSecond <= Max({Requests, Window})
<1>1. Requests \in Nat /\ WindowSecs \in Nat /\ Second \in Nat
  BY DEF LimiterAssumption
<1>2. Window \in Nat /\ Window >= 1
  <2>1. WindowSecs \in Int /\ 1 \in Int
    BY <1>1
  <2>2. Max({WindowSecs, 1}) \in Int /\ Max({WindowSecs, 1}) >= 1
    BY <2>1, MaxOfTwo, Zenon
  <2>3. QED  BY <2>2 DEF Window
<1>. DEFINE q == Requests \div Window
<1>3. q \in Nat /\ Window * q <= Requests /\ (q = 0 => Requests < Window)
  BY <1>1, <1>2
<1>. HIDE DEF q
<1>4. PerSecond = Max({q, 1})
  BY DEF PerSecond, q
<1>5. PerSecond \in {q, 1} /\ PerSecond >= 1 /\ PerSecond >= q
  <2>1. q \in Int /\ 1 \in Int
    BY <1>3
  <2>2. QED  BY <1>4, <2>1, MaxOfTwo, Zenon
<1>6. Interval \in Nat
  BY <1>1, <1>3, <1>5 DEF Interval
<1>7. /\ Max({Requests, Window}) \in Nat /\ Max({Requests, Window}) >= Requests
      /\ Max({Requests, Window}) >= Window
  <2>1. Requests \in Int /\ Window \in Int
    BY <1>1, <1>2
  <2>2. /\ Max({Requests, Window}) \in Int /\ Max({Requests, Window}) >= Requests
        /\ Max({Requests, Window}) >= Window
    BY <2>1, MaxOfTwo, Zenon
  <2>3. QED  BY <1>1, <2>2
<1>8. Window * PerSecond \in Nat
  BY <1>2, <1>3, <1>5
<1>9. Window * PerSecond <= Max({Requests, Window})
  <2>1. CASE PerSecond = q
    BY <1>1, <1>2, <1>3, <1>7, <2>1
  <2>2. CASE PerSecond = 1
    BY <1>2, <1>7, <2>2
  <2>3. QED  BY <1>5, <2>1, <2>2
<1>10. QED  BY <1>2, <1>3, <1>5, <1>6, <1>7, <1>8, <1>9

LimiterTypes ==
    now \in Nat /\ full \in Int /\ calls \in Seq(Nat)

\* The calls since any of them have emptied as many cells, and filling one takes an interval.
CellsTaken ==
    \A i \in 1 .. Len(calls) : full >= calls[i] + (Len(calls) - i + 1) * Interval

\* So the calls from one to another take the time between the two, but for a burst.
Spaced ==
    \A i, j \in 1 .. Len(calls) :
        i <= j => (j - i + 1) * Interval <= calls[j] - calls[i] + Burst * Interval

LimiterInv == LimiterTypes /\ CellsTaken /\ Spaced

\* A call that is let through keeps to the spacing.
LEMMA LetThroughKeeps ==
    ASSUME LimiterAssumption, LimiterInv, NEW c \in Callers, LetThrough(c)
    PROVE  LimiterInv'
<1>1. PICK t \in Nat : t = Interval
  BY Quota
<1>2. PICK b \in Nat : b = Burst /\ b >= 1
  BY Quota DEF Burst
<1>3. PICK n \in Nat : n = Len(calls)
  BY DEF LimiterInv, LimiterTypes
<1>4. now \in Nat /\ full \in Int /\ calls \in Seq(Nat)
  BY DEF LimiterInv, LimiterTypes
<1>5. PICK y \in Nat : y = b * t /\ (b - 1) * t = y - t /\ t <= y
  BY <1>1, <1>2
<1>6. full - y + t <= now
  <2>1. full - (b - 1) * t <= now
    BY <1>1, <1>2 DEF LetThrough, Earliest
  <2>2. QED  BY <1>1, <1>4, <1>5, <2>1
<1>7. full' \in Int /\ full' >= full + t /\ full' >= now + t
  <2>1. now \in Int
    BY <1>4
  <2>2. Max({full, now}) \in Int /\ Max({full, now}) >= full /\ Max({full, now}) >= now
    BY <1>4, <2>1, MaxOfTwo, Zenon
  <2>3. PICK m \in Int : m = Max({full, now}) /\ m >= full /\ m >= now
    BY <2>2
  <2>4. full' = m + t
    BY <1>1, <2>3 DEF LetThrough
  <2>5. QED  BY <1>1, <1>4, <2>3, <2>4
<1>8. now' = now /\ calls' = Append(calls, now)
  BY DEF LetThrough
<1>9. /\ calls' \in Seq(Nat) /\ Len(calls') = n + 1 /\ calls'[n + 1] = now
      /\ \A i \in 1 .. n : calls'[i] = calls[i] /\ calls[i] \in Nat
  BY <1>3, <1>4, <1>8
<1>10. ASSUME NEW i \in 1 .. n  PROVE (n + 1 - i + 1) * t = (n - i + 1) * t + t /\ (n - i + 1) * t \in Nat
  BY <1>1, <1>3
<1>11. ASSUME NEW i \in 1 .. n  PROVE full >= calls[i] + (n - i + 1) * t
  BY <1>1, <1>3 DEF LimiterInv, CellsTaken
<1>a. Interval' = t /\ Burst' = b
  BY <1>1, <1>2 DEF Interval, Burst, PerSecond, Window
<1>12. LimiterTypes'
  BY <1>4, <1>7, <1>8, <1>9 DEF LimiterTypes
<1>13. CellsTaken'
  <2>1. ASSUME NEW i \in 1 .. n + 1
        PROVE  full' >= calls'[i] + (n + 1 - i + 1) * t
    <3>1. CASE i = n + 1
      BY <1>1, <1>3, <1>7, <1>9, <3>1
    <3>2. CASE i # n + 1
      <4>1. i \in 1 .. n
        BY <1>3, <3>2
      <4>2. PICK x \in Nat : x = (n - i + 1) * t
        BY <1>10, <4>1
      <4>3. (n + 1 - i + 1) * t = x + t /\ full >= calls[i] + x /\ calls'[i] = calls[i] /\ calls[i] \in Nat
        BY <1>9, <1>10, <1>11, <4>1, <4>2
      <4>4. PICK f \in Int, e \in Nat : f = full /\ e = calls[i]
        BY <1>4, <4>3
      <4>5. full' >= e + (x + t)
        BY <1>1, <1>7, <4>3, <4>4
      <4>6. QED  BY <4>3, <4>4, <4>5
    <3>3. QED  BY <3>1, <3>2
  <2>2. QED  BY <1>9, <1>a, <2>1 DEF CellsTaken
<1>14. Spaced'
  <2>1. ASSUME NEW i \in 1 .. n + 1, NEW j \in 1 .. n + 1, i <= j
        PROVE  (j - i + 1) * t <= calls'[j] - calls'[i] + y
    <3>1. CASE j = n + 1 /\ i = n + 1
      <4>1. (j - i + 1) * t = t /\ calls'[j] = now /\ calls'[i] = now
        BY <1>1, <1>3, <1>9, <3>1
      <4>2. QED  BY <1>1, <1>4, <1>5, <4>1
    <3>2. CASE j = n + 1 /\ i # n + 1
      <4>1. i \in 1 .. n
        BY <1>3, <3>2
      <4>2. PICK x \in Nat : x = (n - i + 1) * t
        BY <1>10, <4>1
      <4>3. (n + 1 - i + 1) * t = x + t /\ full >= calls[i] + x /\ calls'[i] = calls[i] /\ calls[i] \in Nat
        BY <1>9, <1>10, <1>11, <4>1, <4>2
      <4>4. PICK f \in Int, m \in Nat, e \in Nat : f = full /\ m = now /\ e = calls[i]
        BY <1>4, <4>3
      <4>5. x + t <= m - e + y
        BY <1>1, <1>5, <1>6, <4>3, <4>4
      <4>6. (j - i + 1) * t = x + t /\ calls'[j] = m /\ calls'[i] = e
        BY <1>9, <3>2, <4>3, <4>4
      <4>7. QED  BY <4>5, <4>6
    <3>3. CASE j # n + 1
      <4>1. i \in 1 .. n /\ j \in 1 .. n
        BY <1>3, <2>1, <3>3
      <4>2. (j - i + 1) * Interval <= calls[j] - calls[i] + Burst * Interval
        BY <1>3, <2>1, <4>1 DEF LimiterInv, Spaced
      <4>3. QED  BY <1>1, <1>2, <1>5, <1>9, <4>1, <4>2
    <3>4. QED  BY <3>1, <3>2, <3>3
  <2>2. QED  BY <1>5, <1>9, <1>a, <2>1 DEF Spaced
<1>15. QED  BY <1>12, <1>13, <1>14 DEF LimiterInv

\* The spacing of the calls holds in every state.
THEOREM LimiterInvariant ==
    ASSUME LimiterAssumption
    PROVE  LimiterSpec => []LimiterInv
<1>1. LimiterInit => LimiterInv
  BY DEF LimiterInit, LimiterInv, LimiterTypes, CellsTaken, Spaced
<1>2. LimiterInv /\ [LimiterNext]_limiterVars => LimiterInv'
  <2>1. SUFFICES ASSUME LimiterInv, [LimiterNext]_limiterVars  PROVE LimiterInv'
    OBVIOUS
  <2>2. ASSUME NEW c \in Callers, LetThrough(c)  PROVE LimiterInv'
    BY <2>1, <2>2, LetThroughKeeps
  <2>3. CASE UNCHANGED << full, calls >> /\ now' \in {now, now + 1}
    <3>1. Interval' = Interval /\ Burst' = Burst
      BY DEF Interval, Burst, PerSecond, Window
    <3>2. now' \in Nat
      BY <2>1, <2>3 DEF LimiterInv, LimiterTypes
    <3>3. QED  BY <2>1, <2>3, <3>1, <3>2 DEF LimiterInv, LimiterTypes, CellsTaken, Spaced
  <2>4. QED  BY <2>1, <2>2, <2>3 DEF LimiterNext, Elapse, Sleep, limiterVars
<1>3. QED  BY <1>1, <1>2, PTL DEF LimiterSpec

\* Wherever a window is laid, a client makes no more calls in it than configured and the
\* burst (with_window, acquire), whoever waits and however late a sleeper wakes, where
\* the clock is fine enough for the quota.
THEOREM RateIsKeptAlways ==
    ASSUME LimiterAssumption, FineClock
    PROVE  LimiterSpec => []RateIsKept
<1>1. ASSUME LimiterInv  PROVE RateIsKept
  <2>1. PICK t \in Nat, p \in Nat, w \in Nat, s \in Nat :
            t = Interval /\ p = PerSecond /\ w = Window * PerSecond /\ s = Window * Second
    BY Quota DEF LimiterAssumption
  <2>2. s < (w + 1) * t
    BY <2>1 DEF FineClock
  <2>3. SUFFICES ASSUME NEW i \in 1 .. Len(calls), NEW j \in 1 .. Len(calls), i <= j,
                        calls[j] - calls[i] <= s
                 PROVE  j - i + 1 <= Max({Requests, Window}) + PerSecond
    <3>1. DOMAIN calls = 1 .. Len(calls)
      BY <1>1 DEF LimiterInv, LimiterTypes
    <3>2. QED  BY <2>1, <2>3, <3>1 DEF RateIsKept
  <2>4. PICK k \in Nat : k = j - i + 1
    BY <1>1, <2>3 DEF LimiterInv, LimiterTypes
  <2>5. calls[i] \in Nat /\ calls[j] \in Nat
    <3>1. calls \in Seq(Nat)
      BY <1>1 DEF LimiterInv, LimiterTypes
    <3>2. QED  BY <2>3, <3>1
  <2>6. k * t <= calls[j] - calls[i] + p * t
    BY <1>1, <2>1, <2>3, <2>4 DEF LimiterInv, Spaced, Burst
  <2>7. w + 1 \in Nat /\ w + 1 + p \in Nat /\ t \in Nat /\ p \in Nat /\ k \in Nat
    BY <2>1, <2>4
  <2>8. /\ (w + 1) * t \in Nat /\ p * t \in Nat /\ k * t \in Nat
        /\ (w + 1) * t + p * t = ((w + 1) + p) * t
    <3>1. PICK v \in Nat : v = w + 1
      BY <2>7
    <3>2. v * t \in Nat /\ p * t \in Nat /\ k * t \in Nat /\ v * t + p * t = (v + p) * t
      BY ONLY <2>7, <3>1
    <3>3. QED  BY <3>1, <3>2
  <2>9. PICK x \in Nat, y \in Nat, z \in Nat : x = (w + 1) * t /\ y = p * t /\ z = k * t
    BY <2>8
  <2>10. k * t < (w + 1 + p) * t
    <3>1. PICK d \in Int : d = calls[j] - calls[i]
      BY <2>5
    <3>2. z <= d + y /\ s < x /\ d <= s
      BY <2>2, <2>3, <2>6, <2>9, <3>1
    <3>3. z < x + y
      BY ONLY <3>2, s \in Nat, x \in Nat, y \in Nat, z \in Nat, d \in Int
    <3>4. QED  BY <2>8, <2>9, <3>3
  <2>11. k < w + 1 + p
    BY <2>1, <2>4, <2>7, <2>10, CommonFactor, Zenon
  <2>12. QED  BY <2>1, <2>4, <2>11, Quota
<1>2. QED  BY <1>1, LimiterInvariant, PTL
===============================================================================
