--------------------------- MODULE TrailingProofs ---------------------------
(***************************************************************************)
(* Proofs about Trailing for any number of sources, channels, prices and   *)
(* faults.  With any number of processes: the type invariant, one entry    *)
(* per source, one open mirror per symbol.  With one process: peaks are    *)
(* kept, exits justified, seats and exposure bounded, no trade forgotten,  *)
(* and a Close hits only its own trade.                                    *)
(***************************************************************************)
EXTENDS Trailing, FiniteSetTheorems, WellFoundedInduction, TLAPS

Copies == UNION {[S -> OpenRows] : S \in SUBSET Sources}
Quoted == [Symbols -> Prices \cup {NoPrice}]
Seens == [live : SUBSET Sources, listed : SUBSET Sources, aged : SUBSET Sources]
Admissions == [held : SUBSET Symbols, cooling : SUBSET Symbols, locked : SUBSET Symbols,
               long : Nat, short : Nat, load : [Targets -> Nat]]
-----------------------------------------------------------------------------
(* Facts about the constants and the operators on rows.                    *)

LEMMA ChannelFacts ==
    /\ Len(Channels) \in Nat /\ Len(Channels) >= 1 /\ DOMAIN Channels = 1 .. Len(Channels)
    /\ \A i \in DOMAIN Channels : Channels[i] \in Targets
    /\ Channels[1] \in Targets /\ Targets \subseteq Nat /\ NoChannel \notin Targets
<1>1. Channels \in Seq(Nat \ {NoChannel}) /\ Channels # << >>
  BY ChannelAssumption
<1>2. Len(Channels) \in Nat /\ Len(Channels) >= 1 /\ DOMAIN Channels = 1 .. Len(Channels)
  BY <1>1
<1>3. \A i \in DOMAIN Channels : Channels[i] \in Nat \ {NoChannel}
  BY <1>1
<1>4. QED
  BY <1>2, <1>3 DEF Targets

LEMMA PriceFacts ==
    /\ \A p, q \in Prices : p - q \in Marks /\ q - p \in Marks
    /\ NoPeak \in Int /\ Marks \subseteq Int /\ \A m \in Marks : NoPeak < m
    /\ Prices \subseteq Nat /\ NoPrice \notin Prices /\ Quotes \subseteq Prices \cup {NoPrice}
BY NumberAssumption DEF Prices, Marks, NoPeak, NoPrice

LEMMA SymbolFact == \A s \in Sources : SymbolOf[s] \in Symbols
BY DEF Symbols

LEMMA RowKinds ==
    ASSUME NEW r \in Rows
    PROVE  /\ r.state = "open" <=> r \in OpenRows
           /\ r.state = "closed" <=> r \in ClosedRows
           /\ r.state = "none" <=> r = NoRow
           /\ r.state \in {"none", "open", "closed"}
BY DEF Rows, OpenRows, ClosedRows, NoRow

LEMMA HigherType ==
    ASSUME NEW m \in Marks, NEW p \in Marks \cup {NoPeak}
    PROVE  Higher(m, p) \in Marks
BY PriceFacts DEF Higher

LEMMA ClosedRowType ==
    ASSUME NEW reason \in Reasons, NEW wasPosted \in BOOLEAN
    PROVE  /\ ClosedRow(reason, wasPosted) \in ClosedRows
           /\ ClosedRow(reason, wasPosted) \in Rows
BY DEF ClosedRow, ClosedRows, Rows

LEMMA MirrorRowType ==
    ASSUME NEW wasPosted \in BOOLEAN, NEW c \in Targets \cup {NoChannel}, NEW isFilled \in BOOLEAN,
           NEW e \in Prices, NEW m \in Prices
    PROVE  /\ MirrorRow(wasPosted, c, isFilled, e, m) \in OpenRows
           /\ MirrorRow(wasPosted, c, isFilled, e, m) \in Rows
BY DEF MirrorRow, OpenRows, Rows

LEMMA RowChannelType ==
    ASSUME NEW r \in OpenRows
    PROVE  RowChannel(r) \in Targets
BY ChannelFacts DEF RowChannel, OpenRows

LEMMA SourcesCounted ==
    ASSUME NEW S \in SUBSET Sources
    PROVE  IsFiniteSet(S) /\ Cardinality(S) \in Nat
BY SourceAssumption, FS_Subset, FS_CardinalityType

LEMMA CountsType ==
    ASSUME NEW c \in Targets, NEW isLong \in BOOLEAN
    PROVE  LoadOf(table, c) \in Nat /\ SideOf(table, isLong) \in Nat
<1>1. {s \in OpenIn(table) : RowChannel(table[s]) = c} \in SUBSET Sources
  BY DEF OpenIn
<1>2. {s \in OpenIn(table) : LongOf[s] = isLong} \in SUBSET Sources
  BY DEF OpenIn
<1>3. QED
  BY <1>1, <1>2, SourcesCounted DEF LoadOf, SideOf

(* A set of natural numbers has a least element.                           *)
LEMMA LeastExists ==
    ASSUME NEW S \in SUBSET Nat, S # {}
    PROVE  \E p \in S : \A q \in S : p <= q
<1> DEFINE R == OpToRel(<, Nat)
<1>1. IsWellFoundedOn(R, Nat)
  BY NatLessThanWellFounded
<1>2. \A a, b \in Nat : <<a, b>> \in R <=> a < b
  BY DEF OpToRel
<1> HIDE DEF R
<1>3. PICK p \in S : \A q \in S : <<q, p>> \notin R
  BY <1>1, WFMin
<1>4. \A q \in S : ~(q < p)
  BY <1>2, <1>3
<1>5. QED
  BY <1>3, <1>4

(* assign_channels finds a channel, and none is emptier.                   *)
LEMMA EmptiestIsLeast ==
    ASSUME NEW load \in [Targets -> Nat]
    PROVE  /\ Emptiest(load) \in Targets
           /\ \A c \in Targets : load[Emptiest(load)] <= load[c]
<1> DEFINE L == {load[c] : c \in Targets}
           I(m) == {i \in DOMAIN Channels : load[Channels[i]] = m}
<1>1. L \in SUBSET Nat /\ L # {}
  BY ChannelFacts
<1> HIDE DEF L
<1>2. PICK m \in L : \A n \in L : m <= n
  BY <1>1, LeastExists
<1>3. \A i \in DOMAIN Channels : load[Channels[i]] \in L
  BY ChannelFacts DEF L
<1>4. I(m) \in SUBSET Nat /\ I(m) # {}
  BY <1>2, ChannelFacts DEF L, Targets
<1>5. PICK k \in I(m) : \A i \in I(m) : k <= i
  BY <1>4, LeastExists
<1>6. \A j \in DOMAIN Channels :
        \/ load[Channels[k]] < load[Channels[j]]
        \/ load[Channels[k]] = load[Channels[j]] /\ k <= j
  <2>1. ASSUME NEW j \in DOMAIN Channels, load[Channels[j]] # m PROVE m < load[Channels[j]]
    <3>1. m \in Nat /\ load[Channels[j]] \in Nat /\ m <= load[Channels[j]]
      BY <1>1, <1>2, <1>3
    <3>2. QED
      BY <2>1, <3>1
  <2>2. QED
    BY <1>5, <2>1
<1> DEFINE i == CHOOSE i \in DOMAIN Channels : \A j \in DOMAIN Channels :
                    \/ load[Channels[i]] < load[Channels[j]]
                    \/ load[Channels[i]] = load[Channels[j]] /\ i <= j
<1>7. /\ i \in DOMAIN Channels
      /\ \A j \in DOMAIN Channels :
            \/ load[Channels[i]] < load[Channels[j]]
            \/ load[Channels[i]] = load[Channels[j]] /\ i <= j
  <2>1. k \in DOMAIN Channels
    BY <1>5
  <2>2. QED
    BY <1>6, <2>1
<1>8. Emptiest(load) = Channels[i]
  BY DEF Emptiest
<1> HIDE DEF i
<1>9. ASSUME NEW c \in Targets PROVE load[Channels[i]] <= load[c]
  <2>1. PICK j \in DOMAIN Channels : c = Channels[j]
    BY DEF Targets
  <2>2. load[Channels[i]] \in Nat /\ load[c] \in Nat
    BY <1>7, ChannelFacts
  <2>3. QED
    BY <1>7, <2>1, <2>2
<1>10. QED
  BY <1>7, <1>8, <1>9, ChannelFacts
-----------------------------------------------------------------------------
(* The type invariant.                                                     *)

LEMMA NoAdmissionType == NoAdmission \in Admissions
BY DEF NoAdmission, Admissions

LEMMA ForgetTypes ==
    ASSUME TypeOK, NEW b \in Bots, Forget(b)
    PROVE  /\ seen' \in [Bots -> Seens] /\ mine' \in [Bots -> Copies]
           /\ price' \in [Bots -> Quoted] /\ stops' \in [Bots -> Nat]
           /\ todo' \in [Bots -> SUBSET Sources] /\ adm' \in [Bots -> Admissions]
<1>1. NoSources \in Seens
  BY DEF NoSources, Seens
<1>2. NoMirrors \in Copies
  <2>1. NoMirrors \in [{} -> OpenRows]
    BY DEF NoMirrors
  <2>2. QED
    BY <2>1 DEF Copies
<1>3. NoQuotes \in Quoted
  BY DEF NoQuotes, Quoted
<1>4. seen' \in [Bots -> Seens] /\ stops' \in [Bots -> Nat] /\ todo' \in [Bots -> SUBSET Sources]
  BY <1>1 DEF Forget, TypeOK, Seens
<1>5. mine' \in [Bots -> Copies]
  BY <1>2 DEF Forget, TypeOK, Copies
<1>6. price' \in [Bots -> Quoted]
  BY <1>3 DEF Forget, TypeOK, Quoted
<1>7. adm' \in [Bots -> Admissions]
  BY NoAdmissionType DEF Forget, TypeOK, Admissions
<1>8. QED
  BY <1>4, <1>5, <1>6, <1>7

LEMMA InitTypes == Init => TypeOK
<1> SUFFICES ASSUME Init PROVE TypeOK
  OBVIOUS
<1>1. PICK cast \in Casts, live \in StartModes :
        /\ InitFleet(cast.sources, live)
        /\ pc = [b \in Bots |-> IF b \in cast.bots THEN "down" ELSE "absent"]
        /\ faults = cast.faults
  BY DEF Init
<1>2. cast.sources \in SUBSET Sources /\ cast.faults \in Nat /\ live \in BOOLEAN
  BY SourceAssumption, NumberAssumption
<1>3. LegacyRow(live) \in Rows
  BY <1>2, SourceAssumption, MirrorRowType DEF LegacyRow
<1>4. table \in [Sources -> Rows]
  BY <1>1, <1>3 DEF InitFleet, Rows
<1>5. /\ ai \in [Sources -> {"none", "live", "retired", "gone"}]
      /\ aged \subseteq Sources
      /\ posted \in [Sources -> Nat] /\ posting \in [Bots -> BOOLEAN]
  BY <1>1, <1>2 DEF InitFleet
<1>6. outbox \in [Targets -> Seq(Commands)]
  BY <1>1 DEF InitFleet
<1>7. cornix \subseteq Targets \X Sources
  BY <1>1, <1>2, ChannelFacts DEF InitFleet
<1>8. mine \in [Bots -> UNION {[S -> OpenRows] : S \in SUBSET Sources}]
  <2>1. NoMirrors \in [{} -> OpenRows]
    BY DEF NoMirrors
  <2>2. NoMirrors \in UNION {[S -> OpenRows] : S \in SUBSET Sources}
    BY <2>1
  <2>3. QED
    BY <2>2 DEF Init
<1>9. /\ seen \in [Bots -> [live : SUBSET Sources, listed : SUBSET Sources, aged : SUBSET Sources]]
      /\ stops \in [Bots -> Nat] /\ todo \in [Bots -> SUBSET Sources]
      /\ best \in [Sources -> Marks \cup {NoPeak}]
  BY DEF Init, NoSources
<1>10. price \in [Bots -> [Symbols -> Prices \cup {NoPrice}]]
  BY DEF Init, NoQuotes
<1>11. adm \in [Bots -> Admissions]
  BY NoAdmissionType DEF Init
<1>12. stranded \subseteq Targets \X Sources
  BY DEF Init
<1>13. QED
  BY <1>1, <1>2, <1>4, <1>5, <1>6, <1>7, <1>8, <1>9, <1>10, <1>11, <1>12 DEF TypeOK, Admissions

LEMMA FleetTypes ==
    ASSUME TypeOK, Fleet
    PROVE  TypeOK'
<1> USE DEF TypeOK, botvars
<1>1. CASE \E s \in Sources : Forward(s) \/ Toggle(s) \/ SourceCloses(s) \/ SourceAges(s)
  BY <1>1 DEF Forward, Toggle, SourceCloses, SourceAges
<1>2. ASSUME NEW s \in Sources, RowAges(s) PROVE TypeOK'
  <2>1. table' \in [Sources -> Rows]
    <3>1. table[s] \in Rows
      OBVIOUS
    <3>2. CASE table[s].state = "open" /\ table' = [table EXCEPT ![s].old = TRUE]
      <4>1. table[s] \in OpenRows
        BY <3>1, <3>2, RowKinds
      <4>2. [table[s] EXCEPT !.old = TRUE] \in Rows
        BY <4>1 DEF OpenRows, Rows
      <4>3. QED
        BY <3>2, <4>2
    <3>3. CASE table[s].state = "closed" /\ table[s].age < 2 /\ table' = [table EXCEPT ![s].age = @ + 1]
      <4>1. table[s] \in ClosedRows
        BY <3>1, <3>3, RowKinds
      <4>2. table[s].age + 1 \in 0 .. 2
        BY <3>3, <4>1 DEF ClosedRows
      <4>3. [table[s] EXCEPT !.age = @ + 1] \in ClosedRows
        BY <4>1, <4>2 DEF ClosedRows
      <4>4. QED
        BY <3>3, <4>3 DEF Rows
    <3>4. QED
      BY <1>2, <3>2, <3>3 DEF RowAges
  <2>2. QED
    BY <1>2, <2>1 DEF RowAges
<1>3. ASSUME NEW c \in Targets, Deliver(c) \/ Lose(c) PROVE TypeOK'
  <2>1. outbox[c] \in Seq(Commands) /\ outbox[c] # << >>
    BY <1>3 DEF Deliver, Lose, Settles
  <2>2. Head(outbox[c]) \in Commands /\ Tail(outbox[c]) \in Seq(Commands)
    BY <2>1
  <2>3. outbox' \in [Targets -> Seq(Commands)]
    BY <1>3, <2>2 DEF Deliver, Lose, Settles
  <2>4. cornix' \subseteq Targets \X Sources
    BY <1>3, <2>2 DEF Deliver, Lose, Addressed, Commands
  <2>5. stranded' \subseteq Targets \X Sources
    BY <1>3 DEF Deliver, Lose, Addressed
  <2>6. QED
    BY <1>3, <2>3, <2>4, <2>5 DEF Deliver, Lose, Settles
<1>4. CASE \E x \in cornix : CornixExits(x)
  BY <1>4 DEF CornixExits
<1>5. QED
  BY <1>1, <1>2, <1>3, <1>4 DEF Fleet

LEMMA CarryoverType == TypeOK => CarryoverCleared \in [Sources -> Rows]
<1> SUFFICES ASSUME TypeOK PROVE CarryoverCleared \in [Sources -> Rows]
  OBVIOUS
<1>1. ClosedRow("SHADOW_CARRYOVER", FALSE) \in Rows
  BY ClosedRowType DEF Reasons
<1>2. QED
  BY <1>1 DEF TypeOK, CarryoverCleared

LEMMA ReadTypes ==
    ASSUME TypeOK, NEW b \in Bots, Start(b) \/ ReadSources(b) \/ ReadMirrors(b) \/ Fail(b) \/ Die(b)
    PROVE  TypeOK'
<1>1. CASE Start(b)
  <2>1. table' \in [Sources -> Rows]
    BY <1>1, CarryoverType DEF Start, TypeOK
  <2>2. posting' \in [Bots -> BOOLEAN]
    BY <1>1 DEF Start, TypeOK
  <2>3. QED
    BY <1>1, <2>1, <2>2 DEF Start, TypeOK
<1>2. CASE ReadSources(b)
  BY <1>2 DEF ReadSources, TypeOK
<1>3. CASE ReadMirrors(b)
  <2>1. mine' \in [Bots -> UNION {[S -> OpenRows] : S \in SUBSET Sources}]
    <3>1. \A s \in OpenIn(table) : table[s] \in OpenRows
      BY RowKinds DEF OpenIn, TypeOK
    <3>2. OpenIn(table) \in SUBSET Sources
      BY DEF OpenIn
    <3>3. [s \in OpenIn(table) |-> table[s]] \in UNION {[S -> OpenRows] : S \in SUBSET Sources}
      BY <3>1, <3>2
    <3>4. QED
      BY <1>3, <3>3 DEF ReadMirrors, TypeOK
  <2>2. price' \in [Bots -> [Symbols -> Prices \cup {NoPrice}]]
    <3> DEFINE asked == {SymbolOf[s] : s \in OpenIn(table) \cup (seen[b].live \cap {t \in Sources : table[t] = NoRow})}
    <3>1. PICK q \in [asked -> Quotes] :
            price' = [price EXCEPT ![b] = [y \in Symbols |-> IF y \in asked THEN q[y] ELSE NoPrice]]
      BY <1>3 DEF ReadMirrors
    <3> HIDE DEF asked
    <3>2. [y \in Symbols |-> IF y \in asked THEN q[y] ELSE NoPrice] \in [Symbols -> Prices \cup {NoPrice}]
      BY PriceFacts
    <3>3. QED
      BY <3>1, <3>2 DEF TypeOK
  <2>3. QED
    BY <1>3, <2>1, <2>2 DEF ReadMirrors, TypeOK
<1>4. CASE Fail(b)
  <2>1. faults' \in Nat
    BY <1>4 DEF Fail, TypeOK
  <2>2. QED
    BY <1>4, <2>1, ForgetTypes DEF Fail, TypeOK, Seens, Copies, Quoted, Admissions
<1>5. CASE Die(b)
  <2>1. faults' \in Nat
    BY <1>5 DEF Die, TypeOK
  <2>2. QED
    BY <1>5, <2>1, ForgetTypes DEF Die, TypeOK, Seens, Copies, Quoted, Admissions
<1>6. QED
  BY <1>1, <1>2, <1>3, <1>4, <1>5

(* What a poll knows of the mirror at hand.                                *)
LEMMA PollTerms ==
    ASSUME TypeOK, NEW b \in Bots, NEW s \in DOMAIN mine[b]
    PROVE  /\ s \in Sources /\ mine[b][s] \in OpenRows /\ RowChannel(mine[b][s]) \in Targets
           /\ Quote(b, s) \in Prices \cup {NoPrice}
           /\ Quote(b, s) # NoPrice => MarkNow(b, s) \in Marks /\ PeakNow(b, s) \in Marks
<1>1. s \in Sources /\ mine[b][s] \in OpenRows
  BY DEF TypeOK
<1>2. Quote(b, s) \in Prices \cup {NoPrice}
  BY <1>1, SymbolFact DEF TypeOK, Quote
<1>3. mine[b][s].entry \in Prices /\ mine[b][s].peak \in Marks \cup {NoPeak}
  BY <1>1 DEF OpenRows
<1>4. Quote(b, s) # NoPrice => MarkNow(b, s) \in Marks /\ PeakNow(b, s) \in Marks
  BY <1>2, <1>3, PriceFacts, HigherType DEF MarkNow, Mark, PeakNow
<1>5. QED
  BY <1>1, <1>2, <1>4, RowChannelType

LEMMA CloseTypes ==
    ASSUME TypeOK, NEW b \in Bots, NEW s \in DOMAIN mine[b], NEW reason \in Reasons, NEW post \in BOOLEAN,
           CloseMirror(b, s, reason, post)
    PROVE  table' \in [Sources -> Rows] /\ outbox' \in [Targets -> Seq(Commands)]
<1>1. s \in Sources /\ RowChannel(mine[b][s]) \in Targets
  BY PollTerms
<1>2. table' \in [Sources -> Rows]
  <2>1. CASE table[s].state = "open"
    <3>1. table[s] \in OpenRows
      BY <1>1, <2>1, RowKinds DEF TypeOK
    <3>2. ClosedRow(reason, table[s].posted) \in Rows
      BY <3>1, ClosedRowType DEF OpenRows
    <3>3. QED
      BY <1>1, <2>1, <3>2 DEF CloseMirror, TypeOK
  <2>2. CASE table[s].state # "open"
    BY <2>2 DEF CloseMirror, TypeOK
  <2>3. QED
    BY <2>1, <2>2
<1>3. outbox' \in [Targets -> Seq(Commands)]
  <2> DEFINE c == RowChannel(mine[b][s])
             m == [command |-> "close", source |-> s]
  <2>1. m \in Commands
    BY <1>1 DEF Commands
  <2>2. outbox' = outbox \/ outbox' = [outbox EXCEPT ![c] = Append(@, m)]
    BY DEF CloseMirror
  <2> HIDE DEF c, m
  <2>3. c \in Targets /\ outbox[c] \in Seq(Commands)
    BY <1>1 DEF TypeOK, c
  <2>4. Append(outbox[c], m) \in Seq(Commands)
    BY <2>1, <2>3
  <2>5. QED
    BY <2>2, <2>3, <2>4 DEF TypeOK
<1>4. QED
  BY <1>2, <1>3

LEMMA PollTypes ==
    ASSUME TypeOK, NEW b \in Bots, NEW s \in Sources, Poll(b, s)
    PROVE  TypeOK'
<1>1. Polling(b, s)
  BY DEF Poll, FollowSource, SkipUnpriced, BookStop, AwaitFill, TrailClose, TimeStop, Hold
<1>2. s \in DOMAIN mine[b]
  BY <1>1 DEF Polling
<1>3. mine' \in [Bots -> UNION {[S -> OpenRows] : S \in SUBSET Sources}]
  <2> DEFINE rest == [t \in DOMAIN mine[b] \ {s} |-> mine[b][t]]
  <2>1. mine[b] \in UNION {[S -> OpenRows] : S \in SUBSET Sources}
    BY DEF TypeOK
  <2>2. rest \in UNION {[S -> OpenRows] : S \in SUBSET Sources}
    <3>1. PICK S \in SUBSET Sources : mine[b] \in [S -> OpenRows]
      BY <2>1
    <3>2. rest \in [S \ {s} -> OpenRows]
      BY <3>1
    <3> HIDE DEF rest
    <3>3. QED
      BY <3>2
  <2>3. mine' = [mine EXCEPT ![b] = rest]
    BY <1>1 DEF Polling
  <2> HIDE DEF rest
  <2>4. QED
    BY <2>2, <2>3 DEF TypeOK
<1>4. ASSUME NEW reason \in Reasons, NEW post \in BOOLEAN, CloseMirror(b, s, reason, post)
      PROVE  table' \in [Sources -> Rows] /\ outbox' \in [Targets -> Seq(Commands)]
  BY <1>2, <1>4, CloseTypes
<1>5. UNCHANGED <<table, outbox>> => table' \in [Sources -> Rows] /\ outbox' \in [Targets -> Seq(Commands)]
  BY DEF TypeOK
<1>6. {"SOURCE_CLOSED", "LEG_RETIRED", "SL_HIT", "ENTRY_NOT_FILLED", "TRAIL", "TIME_STOP"} \subseteq Reasons
  BY DEF Reasons, Choices
<1>7. Judged(b, s) => MarkNow(b, s) \in Marks
  BY <1>2, PollTerms DEF Judged
<1>8. table' \in [Sources -> Rows] /\ outbox' \in [Targets -> Seq(Commands)]
  <2>1. CASE FollowSource(b, s)
    BY <1>4, <1>6, <2>1 DEF FollowSource
  <2>2. CASE SkipUnpriced(b, s)
    BY <1>5, <2>2 DEF SkipUnpriced
  <2>3. CASE BookStop(b, s)
    BY <1>4, <1>6, <2>3 DEF BookStop
  <2>4. CASE AwaitFill(b, s)
    <3>1. table[s].state = "open" => [table[s] EXCEPT !.filled = TRUE] \in Rows
      <4>1. table[s].state = "open" => table[s] \in OpenRows
        BY RowKinds DEF TypeOK
      <4>2. table[s] \in OpenRows => [table[s] EXCEPT !.filled = TRUE] \in OpenRows
        BY DEF OpenRows
      <4>3. QED
        BY <4>1, <4>2 DEF Rows
    <3>2. CASE /\ table' = IF table[s].state = "open" THEN [table EXCEPT ![s].filled = TRUE] ELSE table
               /\ UNCHANGED outbox
      BY <3>1, <3>2 DEF TypeOK
    <3>3. QED
      BY <1>4, <1>5, <1>6, <2>4, <3>2 DEF AwaitFill
  <2>5. CASE TrailClose(b, s) \/ TimeStop(b, s)
    BY <1>4, <1>6, <2>5 DEF TrailClose, TimeStop
  <2>6. CASE Hold(b, s)
    <3>1. MarkNow(b, s) \in Marks
      BY <1>7, <2>6 DEF Hold, Trailing
    <3>2. table[s].state = "open" => [table[s] EXCEPT !.peak = MarkNow(b, s)] \in Rows
      <4>1. table[s].state = "open" => table[s] \in OpenRows
        BY RowKinds DEF TypeOK
      <4>2. table[s] \in OpenRows => [table[s] EXCEPT !.peak = MarkNow(b, s)] \in OpenRows
        BY <3>1 DEF OpenRows
      <4>3. QED
        BY <4>1, <4>2 DEF Rows
    <3>3. QED
      BY <2>6, <3>2 DEF Hold, TypeOK
  <2>7. QED
    BY <2>1, <2>2, <2>3, <2>4, <2>5, <2>6 DEF Poll
<1>9. best' \in [Sources -> Marks \cup {NoPeak}] /\ stops' \in [Bots -> Nat]
  <2>1. Judged(b, s) => Higher(MarkNow(b, s), best[s]) \in Marks
    BY <1>7, HigherType DEF TypeOK
  <2>2. best' = best \/ (Judged(b, s) /\ best' = [best EXCEPT ![s] = Higher(MarkNow(b, s), @)])
    BY DEF Poll, FollowSource, SkipUnpriced, BookStop, AwaitFill, TrailClose, TimeStop, Hold, Trailing
  <2>3. stops' = stops \/ stops' = [stops EXCEPT ![b] = @ + 1]
    BY DEF Poll, FollowSource, SkipUnpriced, BookStop, AwaitFill, TrailClose, TimeStop, Hold
  <2>4. best' \in [Sources -> Marks \cup {NoPeak}]
    BY <2>1, <2>2 DEF TypeOK
  <2>5. stops' \in [Bots -> Nat]
    <3>1. stops \in [Bots -> Nat] /\ stops[b] + 1 \in Nat
      BY DEF TypeOK
    <3>2. QED
      BY <2>3, <3>1
  <2>6. QED
    BY <2>4, <2>5
<1>10. QED
  BY <1>1, <1>3, <1>8, <1>9 DEF Polling, TypeOK

LEMMA AdmittedType ==
    ASSUME NEW a \in Admissions, NEW s \in Sources
    PROVE  Admitted(a, s) \in Admissions
<1> DEFINE e == Emptiest(a.load)
<1>1. a.load \in [Targets -> Nat]
  BY DEF Admissions
<1>2. e \in Targets
  BY <1>1, EmptiestIsLeast
<1> HIDE DEF e
<1>3. [a.load EXCEPT ![e] = @ + 1] \in [Targets -> Nat]
  BY <1>1, <1>2
<1>4. a.held \cup {SymbolOf[s]} \in SUBSET Symbols
  BY SymbolFact DEF Admissions
<1>5. (IF LongOf[s] THEN a.long + 1 ELSE a.long) \in Nat /\ (IF LongOf[s] THEN a.short ELSE a.short + 1) \in Nat
  BY DEF Admissions
<1>6. Admitted(a, s) = [a EXCEPT !.held = @ \cup {SymbolOf[s]},
              !.long = IF LongOf[s] THEN @ + 1 ELSE @,
              !.short = IF LongOf[s] THEN @ ELSE @ + 1,
              !.load[e] = @ + 1]
  BY DEF Admitted, e
<1>7. QED
  BY <1>3, <1>4, <1>5, <1>6 DEF Admissions

LEMMA NextCandidateTypes ==
    ASSUME TypeOK, NEW b \in Bots, NEW s \in Sources, NEW a \in Admissions, NextCandidate(b, s, a)
    PROVE  /\ pc' \in [Bots -> {"absent", "down", "idle", "mirrors", "poll", "open"}]
           /\ seen' \in [Bots -> Seens] /\ mine' \in [Bots -> Copies]
           /\ price' \in [Bots -> Quoted] /\ stops' \in [Bots -> Nat]
           /\ todo' \in [Bots -> SUBSET Sources] /\ adm' \in [Bots -> Admissions]
<1>1. CASE Forget(b) /\ pc' = [pc EXCEPT ![b] = "idle"]
  BY <1>1, ForgetTypes DEF TypeOK
<1>2. CASE /\ todo' = [todo EXCEPT ![b] = @ \ {s}]
           /\ adm' = [adm EXCEPT ![b] = a]
           /\ UNCHANGED <<pc, seen, mine, price, stops>>
  <2>1. todo' \in [Bots -> SUBSET Sources]
    BY <1>2 DEF TypeOK
  <2>2. adm' \in [Bots -> Admissions]
    BY <1>2 DEF TypeOK, Admissions
  <2>3. QED
    BY <1>2, <2>1, <2>2 DEF TypeOK, Seens, Copies, Quoted
<1>3. QED
  BY <1>1, <1>2 DEF NextCandidate

LEMMA OpenTypes ==
    ASSUME TypeOK, NEW b \in Bots, NEW s \in Sources, Open(b, s)
    PROVE  TypeOK'
<1> USE DEF Seens, Copies, Quoted, Admissions
<1>1. adm[b] \in Admissions /\ Admitted(adm[b], s) \in Admissions
  BY AdmittedType DEF TypeOK
<1>2. CASE Refuse(b, s)
  BY <1>1, <1>2, NextCandidateTypes DEF Refuse, Considering, TypeOK
<1>3. CASE PassOver(b, s)
  BY <1>1, <1>3, NextCandidateTypes DEF PassOver, Considering, TypeOK
<1>4. CASE Mirror(b, s)
  <2> DEFINE c == Emptiest(adm[b].load)
             m == [command |-> "entry", source |-> s]
  <2>1. c \in Targets
    BY <1>1, EmptiestIsLeast
  <2>2. Quote(b, s) \in Prices
    BY <1>4, SymbolFact DEF Mirror, Insertable, Quote, TypeOK
  <2>3. MirrorRow(posting[b], c, TRUE, Quote(b, s), Quote(b, s)) \in Rows
    BY <2>1, <2>2, MirrorRowType DEF TypeOK
  <2>4. table' \in [Sources -> Rows]
    BY <1>4, <2>3 DEF Mirror, TypeOK
  <2>5. outbox' = outbox \/ outbox' = [outbox EXCEPT ![c] = Append(@, m)]
    BY <1>4 DEF Mirror
  <2>6. posted' = posted \/ posted' = [posted EXCEPT ![s] = @ + 1]
    BY <1>4 DEF Mirror
  <2>7. m \in Commands
    BY DEF Commands
  <2> HIDE DEF c, m
  <2>8. outbox[c] \in Seq(Commands)
    BY <2>1 DEF TypeOK
  <2>9. Append(outbox[c], m) \in Seq(Commands)
    BY <2>7, <2>8
  <2>10. outbox' \in [Targets -> Seq(Commands)]
    BY <2>1, <2>5, <2>9 DEF TypeOK
  <2>11. posted' \in [Sources -> Nat]
    <3>1. posted \in [Sources -> Nat] /\ posted[s] + 1 \in Nat
      BY DEF TypeOK
    <3>2. QED
      BY <2>6, <3>1
  <2>12. NextCandidate(b, s, Admitted(adm[b], s)) /\ UNCHANGED <<ai, aged, cornix, posting, faults, best, stranded>>
    BY <1>4 DEF Mirror, Considering
  <2>13. QED
    BY <1>1, <2>4, <2>10, <2>11, <2>12, NextCandidateTypes DEF TypeOK
<1>5. QED
  BY <1>2, <1>3, <1>4 DEF Open

LEMMA SurveyTypes ==
    ASSUME TypeOK, NEW b \in Bots, Survey(b)
    PROVE  TypeOK'
<1>1. table' = StaleNoted(b) /\ UNCHANGED <<ai, aged, outbox, cornix, posting, faults, posted, best, stranded>>
  BY DEF Survey
<1>2. ClosedRow("PREEXISTING", FALSE) \in Rows
  BY ClosedRowType DEF Reasons
<1>3. table' \in [Sources -> Rows]
  BY <1>1, <1>2 DEF StaleNoted, TypeOK
<1>4. CASE pc' = [pc EXCEPT ![b] = "idle"] /\ Forget(b)
  BY <1>1, <1>3, <1>4, ForgetTypes DEF TypeOK, Seens, Copies, Quoted, Admissions
<1>5. CASE /\ pc' = [pc EXCEPT ![b] = "open"]
           /\ todo' = [todo EXCEPT ![b] = Unseen(b) \ seen[b].aged]
           /\ adm' = [adm EXCEPT ![b] =
                [held |-> {SymbolOf[s] : s \in OpenIn(table)},
                 cooling |-> CoolingIn(table'), locked |-> LockedIn(table'),
                 long |-> SideOf(table, TRUE), short |-> SideOf(table, FALSE),
                 load |-> [c \in Targets |-> SeatsTaken(c)]]]
           /\ UNCHANGED <<seen, mine, price, stops>>
  <2> DEFINE a == [held |-> {SymbolOf[s] : s \in OpenIn(table)},
                   cooling |-> CoolingIn(table'), locked |-> LockedIn(table'),
                   long |-> SideOf(table, TRUE), short |-> SideOf(table, FALSE),
                   load |-> [c \in Targets |-> SeatsTaken(c)]]
  <2>1. a \in Admissions
    <3>1. a.held \in SUBSET Symbols /\ a.cooling \in SUBSET Symbols /\ a.locked \in SUBSET Symbols
      BY SymbolFact DEF OpenIn, CoolingIn, LockedIn, ClosedIn
    <3>2. a.long \in Nat /\ a.short \in Nat
      BY ChannelFacts, CountsType
    <3>3. a.load \in [Targets -> Nat]
      BY CountsType DEF SeatsTaken
    <3>4. QED
      BY <3>1, <3>2, <3>3 DEF Admissions
  <2>2. adm' = [adm EXCEPT ![b] = a]
    BY <1>5
  <2> HIDE DEF a
  <2>3. adm' \in [Bots -> Admissions]
    BY <2>1, <2>2 DEF TypeOK, Admissions
  <2>4. todo' \in [Bots -> SUBSET Sources]
    BY <1>5 DEF TypeOK, Unseen
  <2>5. QED
    BY <1>1, <1>3, <1>5, <2>3, <2>4 DEF TypeOK, Admissions
<1>6. QED
  BY <1>4, <1>5 DEF Survey

LEMMA TypesKept == TypeOK /\ [Next]_vars => TypeOK'
<1> SUFFICES ASSUME TypeOK, [Next]_vars PROVE TypeOK'
  OBVIOUS
<1>1. CASE UNCHANGED vars
  BY <1>1 DEF TypeOK, vars, botvars
<1>2. CASE Next
  BY <1>2, FleetTypes, ReadTypes, PollTypes, OpenTypes, SurveyTypes DEF Next, Cycle
<1>3. QED
  BY <1>1, <1>2

(* Every variable keeps to its type, for any number of processes.          *)
THEOREM TypeCorrect == Spec => []TypeOK
BY InitTypes, TypesKept, PTL DEF Spec
-----------------------------------------------------------------------------
(* How rows change.  Only Mirror opens one, where there was none.          *)

Kept(t) ==
    /\ table'[t] = NoRow => table[t] = NoRow
    /\ table'[t].state = "open" =>
          /\ table[t].state = "open"
          /\ table'[t].posted = table[t].posted /\ table'[t].channel = table[t].channel

LEMMA RowStates ==
    /\ NoRow.state = "none"
    /\ \A reason, wasPosted : ClosedRow(reason, wasPosted).state = "closed"
    /\ \A p, c, f, e, m :
          LET r == MirrorRow(p, c, f, e, m)
          IN  r.state = "open" /\ r.posted = p /\ r.channel = c
BY DEF NoRow, ClosedRow, MirrorRow

LEMMA SameRowKept == ASSUME NEW t \in Sources, table'[t] = table[t] PROVE Kept(t)
BY DEF Kept

LEMMA ClosedKept ==
    ASSUME NEW t \in Sources, NEW reason, NEW wasPosted,
           table'[t] = table[t] \/ table'[t] = ClosedRow(reason, wasPosted)
    PROVE  Kept(t)
<1>1. CASE table'[t] = ClosedRow(reason, wasPosted)
  <2>1. table'[t].state = "closed" /\ NoRow.state = "none"
    BY <1>1, RowStates
  <2>2. QED
    BY <2>1 DEF Kept
<1>2. QED
  BY <1>1, SameRowKept

LEMMA EditKept ==
    ASSUME TypeOK, NEW s \in Sources, NEW r, NEW t \in Sources, table[s].state = "open",
           table' = [table EXCEPT ![s] = r], r.state = "open",
           r.posted = table[s].posted, r.channel = table[s].channel
    PROVE  Kept(t)
<1>1. table \in [Sources -> Rows]
  BY DEF TypeOK
<1>2. CASE t = s
  <2>1. table'[s] = r
    BY <1>1
  <2>2. table'[s].state = "open" /\ table'[s].posted = table[s].posted
        /\ table'[s].channel = table[s].channel /\ NoRow.state = "none"
    BY <2>1, RowStates
  <2>3. QED
    BY <1>2, <2>2 DEF Kept
<1>3. CASE t # s
  BY <1>1, <1>3, SameRowKept
<1>4. QED
  BY <1>2, <1>3

LEMMA CloseKeeps ==
    ASSUME TypeOK, NEW b \in Bots, NEW s \in Sources, NEW reason \in Reasons, NEW post \in BOOLEAN,
           CloseMirror(b, s, reason, post), NEW t \in Sources
    PROVE  Kept(t)
BY RowStates DEF CloseMirror, Kept, TypeOK

LEMMA FleetKeeps ==
    ASSUME TypeOK, Fleet, NEW t \in Sources
    PROVE  Kept(t) /\ posted' = posted
<1>1. ASSUME NEW s \in Sources, RowAges(s) PROVE Kept(t) /\ posted' = posted
  <2>1. CASE table[s].state = "open" /\ table' = [table EXCEPT ![s].old = TRUE]
    <3>1. table[s] \in OpenRows
      BY <2>1, RowKinds DEF TypeOK
    <3>2. [table[s] EXCEPT !.old = TRUE].state = "open"
      BY <2>1, <3>1 DEF OpenRows
    <3>3. QED
      BY <1>1, <2>1, <3>1, <3>2, RowStates DEF Kept, TypeOK, OpenRows, RowAges
  <2>2. CASE table[s].state = "closed" /\ table' = [table EXCEPT ![s].age = @ + 1]
    <3>1. table[s] \in ClosedRows
      BY <2>2, RowKinds DEF TypeOK
    <3>2. [table[s] EXCEPT !.age = @ + 1].state = "closed"
      BY <2>2, <3>1 DEF ClosedRows
    <3>3. QED
      BY <1>1, <2>2, <3>2, RowStates DEF Kept, TypeOK, RowAges
  <2>3. QED
    BY <1>1, <2>1, <2>2 DEF RowAges
<1>2. CASE table' = table /\ posted' = posted
  BY <1>2, SameRowKept
<1>3. QED
  BY <1>1, <1>2 DEF Fleet, Forward, Toggle, SourceCloses, SourceAges, Deliver, Lose, Settles, CornixExits

LEMMA PollKeeps ==
    ASSUME TypeOK, NEW b \in Bots, NEW s \in Sources, Poll(b, s), NEW t \in Sources
    PROVE  Kept(t) /\ posted' = posted
<1>1. posted' = posted
  BY DEF Poll, FollowSource, SkipUnpriced, BookStop, AwaitFill, TrailClose, TimeStop, Hold, Polling
<1>2. {"SOURCE_CLOSED", "LEG_RETIRED", "SL_HIT", "ENTRY_NOT_FILLED", "TRAIL", "TIME_STOP"} \subseteq Reasons
  BY DEF Reasons, Choices
<1>3. \A reason \in Reasons, post \in BOOLEAN : CloseMirror(b, s, reason, post) => Kept(t)
  BY CloseKeeps
<1>4. table' = table => Kept(t)
  BY SameRowKept
<1>5. table[s].state = "open" =>
        table[s] \in OpenRows
  BY RowKinds DEF TypeOK
<1>6. CASE AwaitFill(b, s)
  <2>1. CASE table[s].state = "open" /\ table' = [table EXCEPT ![s].filled = TRUE]
    <3> DEFINE r == [table[s] EXCEPT !.filled = TRUE]
    <3>1. r.state = "open" /\ r.posted = table[s].posted /\ r.channel = table[s].channel
      BY <1>5, <2>1 DEF OpenRows
    <3>2. table' = [table EXCEPT ![s] = r]
      BY <2>1
    <3> HIDE DEF r
    <3>3. Kept(t)
      BY <2>1, <3>1, <3>2, EditKept
    <3>4. QED
      BY <1>1, <3>3
  <2>2. "ENTRY_NOT_FILLED" \in Reasons
    BY <1>2
  <2>3. Kept(t)
    BY <1>3, <1>4, <1>6, <2>1, <2>2 DEF AwaitFill
  <2>4. QED
    BY <1>1, <2>3
<1>7. CASE Hold(b, s)
  <2>1. CASE table[s].state = "open" /\ table' = [table EXCEPT ![s].peak = MarkNow(b, s)]
    <3> DEFINE r == [table[s] EXCEPT !.peak = MarkNow(b, s)]
    <3>1. r.state = "open" /\ r.posted = table[s].posted /\ r.channel = table[s].channel
      BY <1>5, <2>1 DEF OpenRows
    <3>2. table' = [table EXCEPT ![s] = r]
      BY <2>1
    <3> HIDE DEF r
    <3>3. Kept(t)
      BY <2>1, <3>1, <3>2, EditKept
    <3>4. QED
      BY <1>1, <3>3
  <2>2. Kept(t)
    BY <1>4, <1>7, <2>1 DEF Hold
  <2>3. QED
    BY <1>1, <2>2
<1>8. Kept(t)
  BY <1>2, <1>3, <1>4, <1>6, <1>7 DEF Poll, FollowSource, SkipUnpriced, BookStop, TrailClose, TimeStop
<1>9. QED
  BY <1>1, <1>8

(* Every step of the bot but Mirror.                                       *)
LEMMA CycleKeeps ==
    ASSUME TypeOK, NEW b \in Bots, NEW t \in Sources,
           \/ Start(b) \/ ReadSources(b) \/ ReadMirrors(b) \/ Survey(b) \/ Fail(b) \/ Die(b)
           \/ \E s \in Sources : Refuse(b, s) \/ PassOver(b, s)
    PROVE  Kept(t) /\ posted' = posted
<1>1. CASE Start(b)
  <2>1. table'[t] = table[t] \/ table'[t] = ClosedRow("SHADOW_CARRYOVER", FALSE)
    BY <1>1 DEF Start, CarryoverCleared
  <2>2. posted' = posted
    BY <1>1 DEF Start
  <2>3. QED
    BY <2>1, <2>2, ClosedKept
<1>2. CASE Survey(b)
  <2>1. table'[t] = table[t] \/ table'[t] = ClosedRow("PREEXISTING", FALSE)
    BY <1>2 DEF Survey, StaleNoted
  <2>2. posted' = posted
    BY <1>2 DEF Survey
  <2>3. QED
    BY <2>1, <2>2, ClosedKept
<1>3. CASE table' = table /\ posted' = posted
  BY <1>3, SameRowKept
<1>4. QED
  BY <1>1, <1>2, <1>3 DEF ReadSources, ReadMirrors, Fail, Die, Refuse, PassOver, Considering

LEMMA MirrorOpens ==
    ASSUME TypeOK, NEW b \in Bots, NEW s \in Sources, Mirror(b, s)
    PROVE  /\ table[s] = NoRow
           /\ \A t \in OpenIn(table) : SymbolOf[t] # SymbolOf[s]
           /\ table' = [table EXCEPT ![s] =
                MirrorRow(posting[b], Emptiest(adm[b].load), TRUE, Quote(b, s), Quote(b, s))]
           /\ table'[s].state = "open" /\ table'[s].posted = posting[b]
           /\ table'[s].channel = Emptiest(adm[b].load)
           /\ \A t \in Sources \ {s} : table'[t] = table[t]
           /\ posted' = IF posting[b] THEN [posted EXCEPT ![s] = @ + 1] ELSE posted
<1> DEFINE r == MirrorRow(posting[b], Emptiest(adm[b].load), TRUE, Quote(b, s), Quote(b, s))
<1>1. table[s] = NoRow /\ \A t \in OpenIn(table) : SymbolOf[t] # SymbolOf[s]
  BY DEF Mirror, Insertable, Conflicts
<1>2. table' = [table EXCEPT ![s] = r]
  BY DEF Mirror
<1>3. posted' = IF posting[b] THEN [posted EXCEPT ![s] = @ + 1] ELSE posted
  BY DEF Mirror
<1>4. r.state = "open" /\ r.posted = posting[b] /\ r.channel = Emptiest(adm[b].load)
  BY DEF MirrorRow
<1> HIDE DEF r
<1>5. table'[s] = r /\ \A t \in Sources \ {s} : table'[t] = table[t]
  BY <1>2 DEF TypeOK
<1>6. table'[s].state = "open" /\ table'[s].posted = posting[b]
      /\ table'[s].channel = Emptiest(adm[b].load)
  BY <1>4, <1>5
<1>7. QED
  BY <1>1, <1>2, <1>3, <1>5, <1>6 DEF r

LEMMA StepRows ==
    ASSUME TypeOK, [Next]_vars
    PROVE  \/ (\A t \in Sources : Kept(t)) /\ posted' = posted
           \/ \E b \in Bots, s \in Sources : Mirror(b, s)
<1>1. CASE UNCHANGED vars
  BY <1>1, SameRowKept DEF vars
<1>2. CASE Fleet
  <2>1. \A t \in Sources : Kept(t)
    BY <1>2, FleetKeeps
  <2>2. posted' = posted
    BY <1>2 DEF Fleet, Forward, Toggle, SourceCloses, SourceAges, RowAges, Deliver, Lose, Settles, CornixExits
  <2>3. QED
    BY <2>1, <2>2
<1>3. ASSUME NEW b \in Bots, Cycle(b) \/ Fail(b) \/ Die(b)
      PROVE  \/ (\A t \in Sources : Kept(t)) /\ posted' = posted
             \/ \E s \in Sources : Mirror(b, s)
  <2>1. ASSUME NEW s \in Sources, Poll(b, s) PROVE (\A t \in Sources : Kept(t)) /\ posted' = posted
    BY <2>1, PollKeeps
  <2>2. ASSUME \/ Start(b) \/ ReadSources(b) \/ ReadMirrors(b) \/ Survey(b) \/ Fail(b) \/ Die(b)
               \/ \E s \in Sources : Refuse(b, s) \/ PassOver(b, s)
        PROVE  (\A t \in Sources : Kept(t)) /\ posted' = posted
    <3>1. \A t \in Sources : Kept(t)
      BY <2>2, CycleKeeps
    <3>2. posted' = posted
      BY <2>2 DEF Start, ReadSources, ReadMirrors, Survey, Fail, Die, Refuse, PassOver, Considering
    <3>3. QED
      BY <3>1, <3>2
  <2>3. QED
    BY <1>3, <2>1, <2>2 DEF Cycle, Open
<1>4. QED
  BY <1>1, <1>2, <1>3 DEF Next
-----------------------------------------------------------------------------
(* A source is mirrored once, a symbol has one open mirror.                *)

Once == \A s \in Sources : posted[s] \in {0, 1} /\ (table[s] = NoRow => posted[s] = 0)
OInv == TypeOK /\ Once /\ OnePerSymbol

LEMMA InitOnce == Init => OInv
<1> SUFFICES ASSUME Init PROVE OInv
  OBVIOUS
<1>1. PICK cast \in Casts, live \in StartModes : InitFleet(cast.sources, live)
  BY DEF Init
<1>2. LegacyRow(live).state = "open"
  BY DEF LegacyRow, MirrorRow
<1>3. Once
  BY <1>1, <1>2, RowStates DEF InitFleet, Once
<1>4. OpenIn(table) \subseteq Legacy
  BY <1>1, RowStates DEF InitFleet, OpenIn
<1>5. OnePerSymbol
  BY <1>4, SourceAssumption DEF OnePerSymbol
<1>6. QED
  BY <1>3, <1>5, InitTypes DEF OInv

LEMMA StepOnce == OInv /\ [Next]_vars => OInv'
<1> SUFFICES ASSUME OInv, [Next]_vars PROVE OInv'
  OBVIOUS
<1>1. CASE (\A t \in Sources : Kept(t)) /\ posted' = posted
  BY <1>1, TypesKept DEF OInv, Once, OnePerSymbol, OpenIn, Kept
<1>2. ASSUME NEW b \in Bots, NEW s \in Sources, Mirror(b, s) PROVE Once' /\ OnePerSymbol'
  <2>0. /\ posted \in [Sources -> Nat] /\ posted[s] = 0
        /\ posted' = IF posting[b] THEN [posted EXCEPT ![s] = @ + 1] ELSE posted
    <3>1. TypeOK
      BY DEF OInv
    <3>2. table[s] = NoRow /\ posted' = IF posting[b] THEN [posted EXCEPT ![s] = @ + 1] ELSE posted
      BY <1>2, <3>1, MirrorOpens
    <3>3. QED
      BY <3>1, <3>2 DEF OInv, Once, TypeOK
  <2>1. posted'[s] \in {0, 1} /\ \A t \in Sources \ {s} : posted'[t] = posted[t]
    <3>1. CASE posting[b]
      BY <2>0, <3>1
    <3>2. CASE ~posting[b]
      BY <2>0, <3>2
    <3>3. QED
      BY <3>1, <3>2
  <2>2. table'[s] # NoRow /\ \A t \in Sources \ {s} : table'[t] = table[t]
    BY <1>2, MirrorOpens, RowStates DEF OInv
  <2>3. Once'
    BY <2>1, <2>2 DEF OInv, Once
  <2>4. \A t \in OpenIn(table) : SymbolOf[t] # SymbolOf[s]
    BY <1>2, MirrorOpens DEF OInv
  <2>5. OpenIn(table)' \subseteq OpenIn(table) \cup {s}
    BY <2>2 DEF OpenIn
  <2>6. OnePerSymbol'
    BY <2>4, <2>5 DEF OInv, OnePerSymbol
  <2>7. QED
    BY <2>3, <2>6
<1>3. QED
  BY <1>1, <1>2, StepRows, TypesKept DEF OInv

LEMMA InductiveOnce == Spec => []OInv
BY InitOnce, StepOnce, PTL DEF Spec

(* One entry message per source, whatever crashes, exceptions and other    *)
(* processes come between its row and its post (open_mirrors).             *)
THEOREM PostedOnce == Spec => []MirroredOnce
<1>1. OInv => MirroredOnce
  BY DEF OInv, Once, MirroredOnce
<1>2. QED
  BY <1>1, InductiveOnce, PTL

(* One open mirror per symbol, over all channels and processes.            *)
THEOREM OneMirrorPerSymbol == Spec => []OnePerSymbol
<1>1. OInv => OnePerSymbol
  BY DEF OInv
<1>2. QED
  BY <1>1, InductiveOnce, PTL
-----------------------------------------------------------------------------
(* One process, as the watchdog keeps it: the rows a cycle has read are    *)
(* the rows it changes.                                                    *)

OneBot == \A a, b \in Bots : a = b

Alike(r, row) ==
    /\ r.posted = row.posted /\ r.channel = row.channel /\ r.filled = row.filled
    /\ r.entry = row.entry /\ r.mirror = row.mirror /\ r.peak = row.peak
\* The copies of a poll are open rows and what they were when read.
Judging == \A b \in Bots :
    /\ pc[b] # "poll" => DOMAIN mine[b] = {}
    /\ \A s \in DOMAIN mine[b] : table[s].state = "open" /\ Alike(mine[b][s], table[s])
\* The best mark of a source, by the state of its row.
PeakOf(s) ==
    /\ table[s].state = "none" => best[s] = NoPeak
    /\ table[s].state = "open" => table[s].peak = best[s]
    /\ table[s].state = "closed" =>
          /\ table[s].reason = "TRAIL" => best[s] > Activation
          /\ table[s].reason = "TIME_STOP" => best[s] <= Activation
Peaks == \A s \in Sources : PeakOf(s)
JInv == TypeOK /\ Judging /\ Peaks

\* A row that only grows older; a row that closes, or opens, without a trail.
RowSame(t) ==
    /\ table'[t].state = table[t].state
    /\ table[t].state = "open" => Alike(table[t], table'[t])
    /\ table[t].state = "closed" => table'[t].reason = table[t].reason
Settled(t) ==
    \/ RowSame(t)
    \/ table'[t].state = "closed" /\ table'[t].reason \notin Choices
    \/ table[t].state = "none" /\ table'[t].state = "open" /\ table'[t].peak = NoPeak

LEMMA RowFields ==
    /\ \A reason, wasPosted :
          LET r == ClosedRow(reason, wasPosted)
          IN  r.state = "closed" /\ r.reason = reason /\ r.posted = wasPosted
    /\ \A p, c, f, e, m :
          LET r == MirrorRow(p, c, f, e, m)
          IN  /\ r.state = "open" /\ r.posted = p /\ r.channel = c /\ r.filled = f
              /\ r.entry = e /\ r.mirror = m /\ r.peak = NoPeak
BY DEF ClosedRow, MirrorRow

LEMMA SettledKeeps ==
    ASSUME NEW t \in Sources, PeakOf(t), Settled(t), best'[t] = best[t]
    PROVE  PeakOf(t)'
<1>1. CASE RowSame(t)
  BY <1>1 DEF PeakOf, RowSame, Alike
<1>2. CASE table'[t].state = "closed" /\ table'[t].reason \notin Choices
  BY <1>2 DEF PeakOf, Choices
<1>3. CASE table[t].state = "none" /\ table'[t].state = "open" /\ table'[t].peak = NoPeak
  BY <1>3 DEF PeakOf
<1>4. QED
  BY <1>1, <1>2, <1>3 DEF Settled

LEMMA SameRow == ASSUME NEW t \in Sources, table'[t] = table[t] PROVE RowSame(t)
BY DEF RowSame, Alike

(* The environment: rows grow older, copies stay.                          *)
LEMMA FleetRows ==
    ASSUME TypeOK, Fleet, NEW t \in Sources
    PROVE  RowSame(t)
<1>1. ASSUME NEW s \in Sources, RowAges(s) PROVE RowSame(t)
  <2>1. CASE table[s].state = "open" /\ table' = [table EXCEPT ![s].old = TRUE]
    <3>1. table \in [Sources -> Rows] /\ table[s] \in OpenRows
      BY <2>1, RowKinds DEF TypeOK
    <3>2. table'[t] = IF t = s THEN [table[s] EXCEPT !.old = TRUE] ELSE table[t]
      BY <2>1, <3>1
    <3>3. [table[s] EXCEPT !.old = TRUE].state = "open" /\ Alike(table[s], [table[s] EXCEPT !.old = TRUE])
      BY <2>1, <3>1 DEF OpenRows, Alike
    <3>4. QED
      BY <2>1, <3>2, <3>3, SameRow DEF RowSame
  <2>2. CASE table[s].state = "closed" /\ table' = [table EXCEPT ![s].age = @ + 1]
    <3>1. table \in [Sources -> Rows] /\ table[s] \in ClosedRows
      BY <2>2, RowKinds DEF TypeOK
    <3>2. table'[t] = IF t = s THEN [table[s] EXCEPT !.age = @ + 1] ELSE table[t]
      BY <2>2, <3>1
    <3>3. [table[s] EXCEPT !.age = @ + 1].state = "closed"
          /\ [table[s] EXCEPT !.age = @ + 1].reason = table[s].reason
      BY <2>2, <3>1 DEF ClosedRows
    <3>4. QED
      BY <2>2, <3>2, <3>3, SameRow DEF RowSame
  <2>3. QED
    BY <1>1, <2>1, <2>2 DEF RowAges
<1>2. table' = table => RowSame(t)
  BY SameRow
<1>3. QED
  BY <1>1, <1>2 DEF Fleet, Forward, Toggle, SourceCloses, SourceAges, Deliver, Lose, Settles, CornixExits

(* Every step of a cycle but a poll: no row leaves its state by the trail. *)
LEMMA CycleRows ==
    ASSUME TypeOK, NEW b \in Bots, NEW t \in Sources,
           \/ Start(b) \/ ReadSources(b) \/ ReadMirrors(b) \/ Survey(b) \/ Fail(b) \/ Die(b)
           \/ \E s \in Sources : Open(b, s)
    PROVE  Settled(t)
<1>1. table'[t] = table[t] => Settled(t)
  BY SameRow DEF Settled
<1>2. \A reason, wasPosted : reason \notin Choices /\ table'[t] = ClosedRow(reason, wasPosted) => Settled(t)
  BY RowFields DEF Settled
<1>3. CASE Start(b)
  <2>1. table'[t] = table[t] \/ table'[t] = ClosedRow("SHADOW_CARRYOVER", FALSE)
    BY <1>3 DEF Start, CarryoverCleared
  <2>2. "SHADOW_CARRYOVER" \notin Choices
    BY DEF Choices
  <2>3. QED
    BY <1>1, <1>2, <2>1, <2>2
<1>4. CASE Survey(b)
  <2>1. table'[t] = table[t] \/ table'[t] = ClosedRow("PREEXISTING", FALSE)
    BY <1>4 DEF Survey, StaleNoted
  <2>2. "PREEXISTING" \notin Choices
    BY DEF Choices
  <2>3. QED
    BY <1>1, <1>2, <2>1, <2>2
<1>5. CASE table' = table
  BY <1>1, <1>5
<1>6. ASSUME NEW s \in Sources, Mirror(b, s) PROVE Settled(t)
  <2>1. table[s] = NoRow
    BY <1>6 DEF Mirror, Insertable, Conflicts
  <2>2. table' = [table EXCEPT ![s] =
          MirrorRow(posting[b], Emptiest(adm[b].load), TRUE, Quote(b, s), Quote(b, s))]
    BY <1>6 DEF Mirror
  <2>3. CASE t = s
    <3>1. table'[t] = MirrorRow(posting[b], Emptiest(adm[b].load), TRUE, Quote(b, s), Quote(b, s))
      BY <2>2, <2>3 DEF TypeOK
    <3>2. table'[t].state = "open" /\ table'[t].peak = NoPeak
      BY <3>1 DEF MirrorRow
    <3>3. table[t].state = "none"
      BY <2>1, <2>3, RowStates
    <3>4. QED
      BY <3>2, <3>3 DEF Settled
  <2>4. CASE t # s
    BY <1>1, <2>2, <2>4 DEF TypeOK
  <2>5. QED
    BY <2>3, <2>4
<1>7. QED
  BY <1>3, <1>4, <1>5, <1>6 DEF ReadSources, ReadMirrors, Fail, Die, Open, Refuse, PassOver, Considering

LEMMA CycleCopies ==
    ASSUME OneBot, TypeOK, Judging, NEW b \in Bots,
           \/ Start(b) \/ ReadSources(b) \/ ReadMirrors(b) \/ Survey(b) \/ Fail(b) \/ Die(b)
           \/ \E s \in Sources : Open(b, s)
    PROVE  Judging' /\ best' = best
<1>1. best' = best
  BY DEF Start, ReadSources, ReadMirrors, Survey, Fail, Die, Open, Refuse, PassOver, Mirror, Considering
<1>2. \A a \in Bots : a = b
  BY DEF OneBot
<1>3. pc[b] # "poll" => DOMAIN mine[b] = {}
  BY DEF Judging
<1>4. Forget(b) => DOMAIN mine'[b] = {}
  BY DEF Forget, NoMirrors, TypeOK
<1>5. DOMAIN mine'[b] = {} => Judging'
  BY <1>2 DEF Judging
<1>6. CASE ReadMirrors(b)
  <2>1. mine'[b] = [s \in OpenIn(table) |-> table[s]] /\ pc'[b] = "poll" /\ table' = table
    BY <1>6 DEF ReadMirrors, TypeOK
  <2>2. \A s \in OpenIn(table) : table[s].state = "open" /\ Alike(table[s], table[s])
    BY DEF OpenIn, Alike
  <2>3. QED
    BY <1>1, <1>2, <2>1, <2>2 DEF Judging
<1>7. CASE Start(b) \/ ReadSources(b)
  BY <1>1, <1>3, <1>5, <1>7 DEF Start, ReadSources
<1>8. CASE Fail(b) \/ Die(b)
  BY <1>1, <1>4, <1>5, <1>8 DEF Fail, Die
<1>9. CASE Survey(b) \/ \E s \in Sources : Open(b, s)
  <2>1. DOMAIN mine[b] = {} /\ (Forget(b) \/ mine' = mine)
    BY <1>3, <1>9 DEF Survey, Open, Refuse, PassOver, Mirror, Considering, NextCandidate
  <2>2. QED
    BY <1>1, <1>4, <1>5, <2>1
<1>10. QED
  BY <1>6, <1>7, <1>8, <1>9

(* A poll changes the row at hand, which is still as it was read.          *)
LEMMA PollFrame ==
    ASSUME OneBot, TypeOK, Judging, NEW b \in Bots, NEW s \in Sources, Poll(b, s)
    PROVE  /\ Judging'
           /\ s \in DOMAIN mine[b] /\ table[s].state = "open" /\ Alike(mine[b][s], table[s])
           /\ \A t \in Sources \ {s} : table'[t] = table[t] /\ best'[t] = best[t]
<1>1. Polling(b, s)
  BY DEF Poll, FollowSource, SkipUnpriced, BookStop, AwaitFill, TrailClose, TimeStop, Hold
<1>2. s \in DOMAIN mine[b] /\ table[s].state = "open" /\ Alike(mine[b][s], table[s])
  BY <1>1 DEF Polling, Judging
<1>3. \/ table' = table \/ \E r : table' = [table EXCEPT ![s] = r]
  BY DEF Poll, FollowSource, SkipUnpriced, BookStop, AwaitFill, TrailClose, TimeStop, Hold, CloseMirror
<1>4. best' = best \/ \E m : best' = [best EXCEPT ![s] = m]
  BY DEF Poll, FollowSource, SkipUnpriced, BookStop, AwaitFill, TrailClose, TimeStop, Hold
<1>5. \A t \in Sources \ {s} : table'[t] = table[t]
  BY <1>3 DEF TypeOK
<1>6. \A t \in Sources \ {s} : best'[t] = best[t]
  BY <1>4 DEF TypeOK
<1>7. mine'[b] = [t \in DOMAIN mine[b] \ {s} |-> mine[b][t]] /\ pc' = pc
  BY <1>1 DEF Polling, TypeOK
<1>8. DOMAIN mine[b] \subseteq Sources
  BY DEF TypeOK
<1>9. Judging'
  <2>1. \A a \in Bots : a = b
    BY DEF OneBot
  <2>2. \A t \in DOMAIN mine'[b] : t \in DOMAIN mine[b] /\ t \in Sources \ {s} /\ mine'[b][t] = mine[b][t]
    BY <1>7, <1>8
  <2>3. pc'[b] # "poll" => DOMAIN mine'[b] = {}
    BY <1>1, <1>7 DEF Polling
  <2>4. QED
    BY <1>5, <2>1, <2>2, <2>3 DEF Judging
<1>10. QED
  BY <1>2, <1>5, <1>6, <1>9

LEMMA CloseRow ==
    ASSUME TypeOK, NEW b \in Bots, NEW s \in Sources, NEW reason, NEW post,
           CloseMirror(b, s, reason, post), table[s].state = "open"
    PROVE  table'[s] = ClosedRow(reason, table[s].posted)
BY DEF CloseMirror, TypeOK

LEMMA PollPeak ==
    ASSUME OneBot, JInv, NEW b \in Bots, NEW s \in Sources, Poll(b, s)
    PROVE  PeakOf(s)'
<1> TypeOK /\ Judging
  BY DEF JInv
<1>1. s \in DOMAIN mine[b] /\ table[s].state = "open" /\ Alike(mine[b][s], table[s])
  BY PollFrame
<1>2. PeakOf(s)
  BY DEF JInv, Peaks
<1>3. mine[b][s].peak = best[s]
  BY <1>1, <1>2 DEF PeakOf, Alike
<1>4. \A reason, post : CloseMirror(b, s, reason, post) =>
        table'[s].state = "closed" /\ table'[s].reason = reason
  BY <1>1, CloseRow, RowFields
<1>5. ASSUME Settled(s), best' = best PROVE PeakOf(s)'
  BY <1>2, <1>5, SettledKeeps
<1>6. \A reason, post : reason \notin Choices /\ CloseMirror(b, s, reason, post) => Settled(s)
  BY <1>4 DEF Settled
<1>7. CASE FollowSource(b, s)
  <2>1. Settled(s)
    BY <1>6, <1>7 DEF FollowSource, Choices
  <2>2. QED
    BY <1>5, <1>7, <2>1 DEF FollowSource
<1>8. CASE SkipUnpriced(b, s)
  BY <1>5, <1>8, SameRow DEF SkipUnpriced, Settled
<1>9. CASE BookStop(b, s)
  <2>1. Settled(s)
    BY <1>6, <1>9 DEF BookStop, Choices
  <2>2. QED
    BY <1>5, <1>9, <2>1 DEF BookStop
<1>10. CASE AwaitFill(b, s)
  <2>1. CASE table' = [table EXCEPT ![s].filled = TRUE]
    <3>1. table[s] \in OpenRows
      BY <1>1, RowKinds DEF TypeOK
    <3>2. table'[s] = [table[s] EXCEPT !.filled = TRUE]
      BY <2>1 DEF TypeOK
    <3>3. table'[s].state = "open" /\ table'[s].peak = table[s].peak
      BY <3>1, <3>2 DEF OpenRows
    <3>4. QED
      BY <1>2, <1>10, <3>3, <1>1 DEF PeakOf, AwaitFill
  <2>2. CASE CloseMirror(b, s, "ENTRY_NOT_FILLED", TRUE)
    <3>1. Settled(s)
      BY <1>6, <2>2 DEF Choices
    <3>2. QED
      BY <1>5, <1>10, <3>1 DEF AwaitFill
  <2>3. CASE table' = table
    BY <1>5, <1>10, <2>3, SameRow DEF AwaitFill, Settled
  <2>4. QED
    BY <1>1, <1>10, <2>1, <2>2, <2>3 DEF AwaitFill
<1>11. CASE Trailing(b, s)
  <2>1. PeakNow(b, s) = Higher(MarkNow(b, s), best[s]) /\ PeakNow(b, s) \in Int
        /\ MarkNow(b, s) \in Marks
    BY <1>1, <1>3, <1>11, PollTerms, PriceFacts DEF PeakNow, Trailing, Judged
  <2>2. CASE TrailClose(b, s)
    <3>1. table'[s].state = "closed" /\ table'[s].reason = "TRAIL"
      BY <1>4, <2>2 DEF TrailClose
    <3>2. best'[s] = PeakNow(b, s) /\ PeakNow(b, s) > Activation
      BY <2>1, <2>2 DEF TrailClose, TrailFires, Armed, TypeOK
    <3>3. QED
      BY <3>1, <3>2 DEF PeakOf
  <2>3. CASE TimeStop(b, s)
    <3>1. table'[s].state = "closed" /\ table'[s].reason = "TIME_STOP"
      BY <1>4, <2>3 DEF TimeStop
    <3>2. best'[s] = PeakNow(b, s) /\ ~(PeakNow(b, s) > Activation)
      BY <2>1, <2>3 DEF TimeStop, TimeUp, Armed, TypeOK
    <3>3. best'[s] <= Activation
      BY <2>1, <3>2, NumberAssumption
    <3>4. QED
      BY <3>1, <3>3 DEF PeakOf
  <2>4. CASE Hold(b, s)
    <3>1. best'[s] = Higher(MarkNow(b, s), best[s])
      BY <2>4 DEF Hold, TypeOK
    <3>2. table[s] \in OpenRows /\ table[s].peak = best[s]
      BY <1>1, <1>2, RowKinds DEF TypeOK, PeakOf
    <3>3. table' = IF MarkNow(b, s) > best[s] THEN [table EXCEPT ![s].peak = MarkNow(b, s)] ELSE table
      BY <1>1, <1>3, <2>4 DEF Hold
    <3>4. table'[s] = IF MarkNow(b, s) > best[s] THEN [table[s] EXCEPT !.peak = MarkNow(b, s)] ELSE table[s]
      BY <3>3 DEF TypeOK
    <3>5. table'[s].state = "open" /\ table'[s].peak = Higher(MarkNow(b, s), best[s])
      BY <1>1, <3>2, <3>4 DEF OpenRows, Higher
    <3>6. QED
      BY <3>1, <3>5 DEF PeakOf
  <2>5. ~FollowSource(b, s) /\ ~SkipUnpriced(b, s) /\ ~BookStop(b, s) /\ ~AwaitFill(b, s)
    BY <1>11 DEF Trailing, Judged, FollowSource, SkipUnpriced, BookStop, AwaitFill
  <2>6. QED
    BY <2>2, <2>3, <2>4, <2>5 DEF Poll
<1>12. QED
  BY <1>7, <1>8, <1>9, <1>10, <1>11 DEF Poll, TrailClose, TimeStop, Hold

LEMMA InitPeaks == Init => JInv
<1> SUFFICES ASSUME Init PROVE JInv
  OBVIOUS
<1>1. PICK cast \in Casts, live \in StartModes : InitFleet(cast.sources, live)
  BY DEF Init
<1>2. Judging
  BY DEF Init, Judging, NoMirrors
<1>3. LegacyRow(live).state = "open" /\ LegacyRow(live).peak = NoPeak
  BY DEF LegacyRow, MirrorRow
<1>4. Peaks
  BY <1>1, <1>3, RowStates DEF Init, InitFleet, Peaks, PeakOf
<1>5. QED
  BY <1>2, <1>4, InitTypes DEF JInv

LEMMA StepPeaks ==
    ASSUME OneBot, JInv, [Next]_vars
    PROVE  JInv'
<1> TypeOK /\ Judging /\ Peaks
  BY DEF JInv
<1>1. TypeOK'
  BY TypesKept
<1>2. ASSUME best' = best, \A t \in Sources : Settled(t) PROVE Peaks'
  BY <1>2, SettledKeeps DEF Peaks
<1>3. CASE UNCHANGED vars
  BY <1>1, <1>3 DEF vars, botvars, JInv, Judging, Peaks, PeakOf, Alike
<1>4. CASE Fleet
  <2>1. \A t \in Sources : RowSame(t)
    BY <1>4, FleetRows
  <2>2. mine' = mine /\ pc' = pc /\ best' = best
    BY <1>4 DEF Fleet, Forward, Toggle, SourceCloses, SourceAges, RowAges, Deliver, Lose, Settles, CornixExits, botvars
  <2>3. \A b \in Bots : DOMAIN mine[b] \subseteq Sources
    BY DEF TypeOK
  <2>4. Judging'
    BY <2>1, <2>2, <2>3 DEF Judging, RowSame, Alike
  <2>5. QED
    BY <1>1, <1>2, <2>1, <2>2, <2>4 DEF Settled, JInv
<1>5. ASSUME NEW b \in Bots,
             \/ Start(b) \/ ReadSources(b) \/ ReadMirrors(b) \/ Survey(b) \/ Fail(b) \/ Die(b)
             \/ \E s \in Sources : Open(b, s)
      PROVE  JInv'
  <2>1. Judging' /\ best' = best
    BY <1>5, CycleCopies
  <2>2. \A t \in Sources : Settled(t)
    BY <1>5, CycleRows
  <2>3. QED
    BY <1>1, <1>2, <2>1, <2>2 DEF JInv
<1>6. ASSUME NEW b \in Bots, NEW s \in Sources, Poll(b, s) PROVE JInv'
  <2>1. Judging' /\ \A t \in Sources \ {s} : table'[t] = table[t] /\ best'[t] = best[t]
    BY <1>6, PollFrame
  <2>2. \A t \in Sources \ {s} : PeakOf(t)'
    BY <2>1, SettledKeeps, SameRow DEF Settled, Peaks
  <2>3. PeakOf(s)'
    BY <1>6, PollPeak
  <2>4. Peaks'
    BY <2>2, <2>3 DEF Peaks
  <2>5. QED
    BY <1>1, <2>1, <2>4 DEF JInv
<1>7. QED
  BY <1>3, <1>4, <1>5, <1>6 DEF Next, Cycle

LEMMA InductivePeaks == ASSUME OneBot PROVE Spec => []JInv
<1>1. JInv /\ [Next]_vars => JInv'
  BY StepPeaks
<1>2. QED
  BY <1>1, InitPeaks, PTL DEF Spec

(* The peak written to the row is the best mark the mirror was judged by,  *)
(* over exceptions, deaths and restarts (poll_open_mirrors).               *)
THEOREM PeakSurvives == ASSUME OneBot PROVE Spec => []PeakKept
<1>1. JInv => PeakKept
  BY DEF JInv, Peaks, PeakOf, PeakKept, OpenIn
<1>2. QED
  BY <1>1, InductivePeaks, PTL

(* No mirror is closed by the trail before it was armed, and none by the   *)
(* time stop after (TrailState.update, poll_open_mirrors).                 *)
THEOREM ExitsHaveReason == ASSUME OneBot PROVE Spec => []ExitsJustified
<1>1. JInv => ExitsJustified
  BY DEF JInv, Peaks, PeakOf, ExitsJustified, ClosedIn
<1>2. QED
  BY <1>1, InductivePeaks, PTL
-----------------------------------------------------------------------------
(* Seats and sides: what the admission counts is never less than what the  *)
(* book holds.                                                             *)

Fits == \A c \in Targets : LoadOf(table, c) <= SlotCap
Counts(b) ==
    /\ \A c \in Targets : LoadOf(table, c) <= adm[b].load[c]
    /\ \A isLong \in BOOLEAN : SideOf(table, isLong) <= Counted(b, isLong)
SInv == TypeOK /\ Fits /\ \A b \in Bots : pc[b] = "open" => Counts(b)

SeatsOf(tab, c) == {s \in OpenIn(tab) : RowChannel(tab[s]) = c}
Facing(tab, isLong) == {s \in OpenIn(tab) : LongOf[s] = isLong}

LEMMA CountSubset ==
    ASSUME NEW T \in SUBSET Sources, NEW S \in SUBSET T
    PROVE  Cardinality(S) <= Cardinality(T)
BY SourcesCounted, FS_Subset

LEMMA CountOneMore ==
    ASSUME NEW T \in SUBSET Sources, NEW s \in Sources, NEW S \in SUBSET (T \cup {s})
    PROVE  Cardinality(S) <= Cardinality(T) + 1
<1>1. Cardinality(S) \in Nat /\ Cardinality(T) \in Nat /\ IsFiniteSet(T) /\ IsFiniteSet(T \cup {s})
  BY SourcesCounted
<1>2. Cardinality(S) <= Cardinality(T \cup {s})
  BY <1>1, FS_Subset
<1>3. Cardinality(T \cup {s}) = Cardinality(T) \/ Cardinality(T \cup {s}) = Cardinality(T) + 1
  BY <1>1, FS_AddElement
<1>4. QED
  BY <1>1, <1>2, <1>3

(* Nothing opens: no count grows.                                          *)
LEMMA CountsShrink ==
    ASSUME TypeOK, TypeOK', \A t \in Sources : Kept(t)
    PROVE  /\ \A c \in Targets : LoadOf(table, c)' <= LoadOf(table, c)
           /\ \A isLong \in BOOLEAN : SideOf(table, isLong)' <= SideOf(table, isLong)
<1>1. ASSUME NEW c \in Targets PROVE LoadOf(table, c)' <= LoadOf(table, c)
  <2>1. SeatsOf(table, c)' \in SUBSET SeatsOf(table, c) /\ SeatsOf(table, c) \in SUBSET Sources
    BY DEF SeatsOf, OpenIn, Kept, RowChannel
  <2>2. QED
    BY <2>1, CountSubset DEF LoadOf, SeatsOf
<1>2. ASSUME NEW isLong \in BOOLEAN PROVE SideOf(table, isLong)' <= SideOf(table, isLong)
  <2>1. Facing(table, isLong)' \in SUBSET Facing(table, isLong) /\ Facing(table, isLong) \in SUBSET Sources
    BY DEF Facing, OpenIn, Kept
  <2>2. QED
    BY <2>1, CountSubset DEF SideOf, Facing
<1>3. QED
  BY <1>1, <1>2

LEMMA CountsTyped ==
    /\ TypeOK => \A c \in Targets, isLong \in BOOLEAN :
                    LoadOf(table, c) \in Nat /\ SideOf(table, isLong) \in Nat
    /\ TypeOK => \A c \in Targets, isLong \in BOOLEAN :
                    LoadOf(table, c)' \in Nat /\ SideOf(table, isLong)' \in Nat
    /\ TypeOK => \A b \in Bots, c \in Targets, isLong \in BOOLEAN :
                    adm[b].load[c] \in Nat /\ Counted(b, isLong) \in Nat
<1>1. \A tab, c, isLong : LoadOf(tab, c) \in Nat /\ SideOf(tab, isLong) \in Nat
  <2> SUFFICES ASSUME NEW tab, NEW c, NEW isLong
               PROVE  LoadOf(tab, c) \in Nat /\ SideOf(tab, isLong) \in Nat
    OBVIOUS
  <2>1. {s \in OpenIn(tab) : RowChannel(tab[s]) = c} \in SUBSET Sources
        /\ {s \in OpenIn(tab) : LongOf[s] = isLong} \in SUBSET Sources
    BY DEF OpenIn
  <2>2. QED
    BY <2>1, SourcesCounted DEF LoadOf, SideOf
<1>2. ASSUME TypeOK, NEW b \in Bots, NEW c \in Targets, NEW isLong \in BOOLEAN
      PROVE  adm[b].load[c] \in Nat /\ Counted(b, isLong) \in Nat
  BY <1>2 DEF TypeOK, Counted
<1>3. \A c, isLong : LoadOf(table, c)' \in Nat /\ SideOf(table, isLong)' \in Nat
  BY <1>1
<1>4. QED
  BY <1>1, <1>2, <1>3

(* A step that opens no row and leaves the counters of an open pass as     *)
(* they are, or drops them.                                                *)
LEMMA SeatsLeft ==
    ASSUME SInv, TypeOK', \A t \in Sources : Kept(t),
           \A b \in Bots : pc'[b] = "open" =>
              /\ pc[b] = "open"
              /\ \A c \in Targets : adm'[b].load[c] >= adm[b].load[c]
              /\ \A isLong \in BOOLEAN : Counted(b, isLong)' >= Counted(b, isLong)
    PROVE  SInv'
<1>1. TypeOK
  BY DEF SInv
<1>2. /\ \A c \in Targets : LoadOf(table, c)' <= LoadOf(table, c)
      /\ \A isLong \in BOOLEAN : SideOf(table, isLong)' <= SideOf(table, isLong)
  BY <1>1, CountsShrink
<1>3. /\ \A c \in Targets, isLong \in BOOLEAN : LoadOf(table, c) \in Nat /\ SideOf(table, isLong) \in Nat
      /\ \A c \in Targets, isLong \in BOOLEAN : LoadOf(table, c)' \in Nat /\ SideOf(table, isLong)' \in Nat
      /\ \A b \in Bots, c \in Targets, isLong \in BOOLEAN :
            adm[b].load[c] \in Nat /\ Counted(b, isLong) \in Nat
  BY <1>1, CountsTyped
<1>4. \A b \in Bots, c \in Targets, isLong \in BOOLEAN :
            adm'[b].load[c] \in Nat /\ Counted(b, isLong)' \in Nat
  BY DEF TypeOK, Counted
<1>5. Fits'
  BY <1>2, <1>3, NumberAssumption DEF SInv, Fits
<1>6. ASSUME NEW b \in Bots, pc'[b] = "open" PROVE Counts(b)'
  <2>1. Counts(b)
    BY <1>6 DEF SInv
  <2>2. ASSUME NEW c \in Targets PROVE LoadOf(table, c)' <= adm'[b].load[c]
    <3>1. /\ LoadOf(table, c)' <= LoadOf(table, c)
          /\ LoadOf(table, c) <= adm[b].load[c]
          /\ adm[b].load[c] <= adm'[b].load[c]
      BY <1>2, <1>6, <2>1 DEF Counts
    <3>2. /\ LoadOf(table, c)' \in Nat /\ LoadOf(table, c) \in Nat
          /\ adm[b].load[c] \in Nat /\ adm'[b].load[c] \in Nat
      BY <1>3, <1>4
    <3>3. QED
      BY <3>1, <3>2
  <2>3. ASSUME NEW isLong \in BOOLEAN PROVE SideOf(table, isLong)' <= Counted(b, isLong)'
    <3>1. /\ SideOf(table, isLong)' <= SideOf(table, isLong)
          /\ SideOf(table, isLong) <= Counted(b, isLong)
          /\ Counted(b, isLong) <= Counted(b, isLong)'
      BY <1>2, <1>6, <2>1 DEF Counts
    <3>2. /\ SideOf(table, isLong)' \in Nat /\ SideOf(table, isLong) \in Nat
          /\ Counted(b, isLong) \in Nat /\ Counted(b, isLong)' \in Nat
      BY <1>3, <1>4, ChannelFacts
    <3>3. QED
      BY <3>1, <3>2
  <2>4. QED
    BY <2>2, <2>3 DEF Counts
<1>7. QED
  BY <1>5, <1>6 DEF SInv

LEMMA AdmittedCounts ==
    ASSUME NEW a \in Admissions, NEW s \in Sources
    PROVE  /\ Emptiest(a.load) \in Targets
           /\ \A c \in Targets : Admitted(a, s).load[c] =
                IF c = Emptiest(a.load) THEN a.load[c] + 1 ELSE a.load[c]
           /\ Admitted(a, s).long = IF LongOf[s] THEN a.long + 1 ELSE a.long
           /\ Admitted(a, s).short = IF LongOf[s] THEN a.short ELSE a.short + 1
<1> DEFINE e == Emptiest(a.load)
<1>1. a.load \in [Targets -> Nat] /\ e \in Targets
  BY EmptiestIsLeast DEF Admissions
<1>2. Admitted(a, s) = [a EXCEPT !.held = @ \cup {SymbolOf[s]},
              !.long = IF LongOf[s] THEN @ + 1 ELSE @,
              !.short = IF LongOf[s] THEN @ ELSE @ + 1,
              !.load[e] = @ + 1]
  BY DEF Admitted
<1> HIDE DEF e
<1>3. Admitted(a, s).load = [a.load EXCEPT ![e] = @ + 1]
      /\ Admitted(a, s).long = (IF LongOf[s] THEN a.long + 1 ELSE a.long)
      /\ Admitted(a, s).short = (IF LongOf[s] THEN a.short ELSE a.short + 1)
  BY <1>2 DEF Admissions
<1>4. QED
  BY <1>1, <1>3 DEF e

(* The next candidate sees the counters it is handed, or there is none.    *)
LEMMA CountersHanded ==
    ASSUME OneBot, TypeOK, NEW b \in Bots, NEW s \in Sources, NEW a, NextCandidate(b, s, a)
    PROVE  \A d \in Bots : pc'[d] = "open" => d = b /\ pc'[b] = pc[b] /\ adm'[b] = a
BY DEF OneBot, NextCandidate, TypeOK

LEMMA SeatsPassedOver ==
    ASSUME OneBot, SInv, TypeOK', NEW b \in Bots, NEW s \in Sources, Refuse(b, s) \/ PassOver(b, s)
    PROVE  SInv'
<1>1. TypeOK /\ adm[b] \in Admissions
  BY DEF SInv, TypeOK, Admissions
<1>2. \A t \in Sources : Kept(t)
  <2>1. table' = table
    BY DEF Refuse, PassOver
  <2>2. QED
    BY <2>1, SameRowKept
<1>3. \A d \in Bots : pc'[d] = "open" => d = b /\ pc'[b] = pc[b] /\ adm'[b] \in {adm[b], Admitted(adm[b], s)}
  BY <1>1, CountersHanded DEF Refuse, PassOver
<1>4. /\ \A c \in Targets : Admitted(adm[b], s).load[c] >= adm[b].load[c]
      /\ Admitted(adm[b], s).long >= adm[b].long /\ Admitted(adm[b], s).short >= adm[b].short
  <2>1. adm[b].long \in Nat /\ adm[b].short \in Nat /\ \A c \in Targets : adm[b].load[c] \in Nat
    BY <1>1 DEF Admissions
  <2>2. QED
    BY <1>1, <2>1, AdmittedCounts
<1>5. ASSUME NEW d \in Bots, pc'[d] = "open"
      PROVE  /\ pc[d] = "open"
             /\ \A c \in Targets : adm'[d].load[c] >= adm[d].load[c]
             /\ \A isLong \in BOOLEAN : Counted(d, isLong)' >= Counted(d, isLong)
  <2>1. d = b /\ pc[d] = "open" /\ adm'[d] \in {adm[d], Admitted(adm[d], s)}
    BY <1>3, <1>5
  <2>2. adm[d].long \in Nat /\ adm[d].short \in Nat /\ \A c \in Targets : adm[d].load[c] \in Nat
    BY <1>1, <2>1 DEF Admissions
  <2>3. QED
    BY <1>4, <2>1, <2>2 DEF Counted
<1>6. QED
  BY <1>2, <1>5, SeatsLeft

(* What a mirror opens, it has counted; it takes a seat that is free.      *)
LEMMA SeatsMirror ==
    ASSUME OneBot, SInv, TypeOK', NEW b \in Bots, NEW s \in Sources, Mirror(b, s)
    PROVE  SInv'
<1> DEFINE e == Emptiest(adm[b].load)
<1>1. TypeOK /\ adm[b] \in Admissions /\ adm[b].load \in [Targets -> Nat] /\ Counts(b) /\ pc[b] = "open"
  BY DEF SInv, TypeOK, Admissions, Mirror, Considering
<1>2. /\ table[s] = NoRow /\ table'[s].state = "open" /\ table'[s].channel = e
      /\ \A t \in Sources \ {s} : table'[t] = table[t]
  BY <1>1, MirrorOpens
<1>3. e \in Targets /\ e # NoChannel /\ \A c \in Targets : adm[b].load[e] <= adm[b].load[c]
  BY <1>1, EmptiestIsLeast, ChannelFacts
<1>4. adm[b].load[e] < SlotCap
  <2>1. PICK c \in Targets : ~(adm[b].load[c] >= SlotCap)
    BY DEF Mirror, Refused
  <2>2. adm[b].load[c] \in Nat /\ adm[b].load[e] \in Nat /\ adm[b].load[e] <= adm[b].load[c]
    BY <1>1, <1>3
  <2>3. QED
    BY <2>1, <2>2, NumberAssumption
<1> HIDE DEF e
<1>5. /\ \A c \in Targets, isLong \in BOOLEAN : LoadOf(table, c) \in Nat /\ SideOf(table, isLong) \in Nat
      /\ \A c \in Targets, isLong \in BOOLEAN : LoadOf(table, c)' \in Nat /\ SideOf(table, isLong)' \in Nat
  BY <1>1, CountsTyped
<1>6. LoadOf(table', e) <= LoadOf(table, e) + 1
  <2>1. SeatsOf(table, e) \in SUBSET Sources /\ SeatsOf(table', e) \in SUBSET Sources
    BY DEF SeatsOf, OpenIn
  <2>2. ASSUME NEW t \in SeatsOf(table', e), t # s PROVE t \in SeatsOf(table, e)
    BY <1>2, <2>1, <2>2 DEF SeatsOf, OpenIn
  <2>3. SeatsOf(table', e) \in SUBSET (SeatsOf(table, e) \cup {s})
    BY <2>2
  <2>4. QED
    BY <2>1, <2>3, CountOneMore DEF LoadOf, SeatsOf
<1>7. ASSUME NEW c \in Targets, c # e PROVE LoadOf(table, c)' <= LoadOf(table, c)
  <2>1. SeatsOf(table, c)' \in SUBSET SeatsOf(table, c) /\ SeatsOf(table, c) \in SUBSET Sources
    <3>1. RowChannel(table'[s]) = e
      BY <1>2, <1>3 DEF RowChannel
    <3>2. QED
      BY <1>2, <1>7, <3>1 DEF SeatsOf, OpenIn
  <2>2. QED
    BY <2>1, CountSubset DEF LoadOf, SeatsOf
<1>8. ASSUME NEW isLong \in BOOLEAN
      PROVE  SideOf(table, isLong)' <= (IF LongOf[s] = isLong THEN SideOf(table, isLong) + 1
                                                             ELSE SideOf(table, isLong))
  <2>1. Facing(table, isLong)' \in SUBSET (Facing(table, isLong) \cup {s})
        /\ Facing(table, isLong) \in SUBSET Sources
    BY <1>2 DEF Facing, OpenIn
  <2>2. LongOf[s] # isLong => Facing(table, isLong)' \in SUBSET Facing(table, isLong)
    BY <1>2 DEF Facing, OpenIn
  <2>3. SideOf(table, isLong)' <= SideOf(table, isLong) + 1
    BY <2>1, CountOneMore DEF SideOf, Facing
  <2>4. LongOf[s] # isLong => SideOf(table, isLong)' <= SideOf(table, isLong)
    BY <2>1, <2>2, CountSubset DEF SideOf, Facing
  <2>5. QED
    BY <2>3, <2>4
<1>9. Fits'
  <2>1. ASSUME NEW c \in Targets PROVE LoadOf(table, c)' <= SlotCap
    <3>1. /\ LoadOf(table, c)' \in Nat /\ LoadOf(table, c) \in Nat /\ SlotCap \in Nat
          /\ LoadOf(table, c) <= SlotCap
      BY <1>5, NumberAssumption DEF SInv, Fits
    <3>2. CASE c = e
      <4>1. LoadOf(table, e) <= adm[b].load[e] /\ adm[b].load[e] \in Nat
        BY <1>1, <1>3 DEF Counts
      <4>2. LoadOf(table', e) <= LoadOf(table, e) + 1 /\ adm[b].load[e] < SlotCap
        BY <1>4, <1>6
      <4>3. QED
        BY <3>1, <3>2, <4>1, <4>2
    <3>3. CASE c # e
      <4>1. LoadOf(table, c)' <= LoadOf(table, c)
        BY <1>7, <3>3
      <4>2. QED
        BY <3>1, <4>1
    <3>4. QED
      BY <3>2, <3>3
  <2>2. QED
    BY <2>1 DEF Fits
<1>10. ASSUME NEW d \in Bots, pc'[d] = "open" PROVE Counts(d)'
  <2>1. d = b /\ adm'[b] = Admitted(adm[b], s)
    BY <1>1, <1>10, CountersHanded DEF Mirror
  <2>2. /\ \A c \in Targets : adm'[b].load[c] = IF c = e THEN adm[b].load[c] + 1 ELSE adm[b].load[c]
        /\ adm'[b].long = IF LongOf[s] THEN adm[b].long + 1 ELSE adm[b].long
        /\ adm'[b].short = IF LongOf[s] THEN adm[b].short ELSE adm[b].short + 1
    BY <1>1, <2>1, AdmittedCounts DEF e
  <2>3. adm[b].long \in Nat /\ adm[b].short \in Nat
    BY <1>1 DEF Admissions
  <2>4. ASSUME NEW c \in Targets PROVE LoadOf(table, c)' <= adm'[b].load[c]
    <3>1. LoadOf(table, c) <= adm[b].load[c] /\ adm[b].load[c] \in Nat
      BY <1>1 DEF Counts
    <3>2. LoadOf(table, c)' \in Nat /\ LoadOf(table, c) \in Nat
      BY <1>5
    <3>3. CASE c = e
      <4>1. LoadOf(table', e) <= LoadOf(table, e) + 1 /\ adm'[b].load[e] = adm[b].load[e] + 1
        BY <1>3, <1>6, <2>2
      <4>2. QED
        BY <3>1, <3>2, <3>3, <4>1
    <3>4. CASE c # e
      <4>1. LoadOf(table, c)' <= LoadOf(table, c) /\ adm'[b].load[c] = adm[b].load[c]
        BY <1>7, <2>2, <3>4
      <4>2. QED
        BY <3>1, <3>2, <4>1
    <3>5. QED
      BY <3>3, <3>4
  <2>5. ASSUME NEW isLong \in BOOLEAN PROVE SideOf(table, isLong)' <= Counted(b, isLong)'
    <3>1. SideOf(table, isLong) <= Counted(b, isLong) /\ LongOf[s] \in BOOLEAN
      BY <1>1, SourceAssumption DEF Counts
    <3>2. SideOf(table, isLong)' \in Nat /\ SideOf(table, isLong) \in Nat
      BY <1>5, ChannelFacts
    <3>3. Counted(b, isLong)' = IF LongOf[s] = isLong THEN Counted(b, isLong) + 1 ELSE Counted(b, isLong)
      BY <2>2, <3>1 DEF Counted
    <3>4. Counted(b, isLong) \in Nat
      BY <2>3 DEF Counted
    <3>5. QED
      BY <1>8, <3>1, <3>2, <3>3, <3>4
  <2>6. QED
    BY <2>1, <2>4, <2>5 DEF Counts
<1>11. QED
  BY <1>9, <1>10 DEF SInv

(* A pass starts from the counts of the book.                              *)
LEMMA SeatsSurveyed ==
    ASSUME OneBot, SInv, TypeOK', NEW b \in Bots, Survey(b)
    PROVE  SInv'
<1>1. TypeOK
  BY DEF SInv
<1>2. \A t \in Sources : Kept(t)
  BY <1>1, CycleKeeps
<1>3. /\ \A c \in Targets : LoadOf(table, c)' <= LoadOf(table, c)
      /\ \A isLong \in BOOLEAN : SideOf(table, isLong)' <= SideOf(table, isLong)
  BY <1>1, <1>2, CountsShrink
<1>4. /\ \A c \in Targets, isLong \in BOOLEAN : LoadOf(table, c) \in Nat
      /\ \A c \in Targets, isLong \in BOOLEAN : LoadOf(table, c)' \in Nat
  BY <1>1, CountsTyped
<1>5. Fits'
  BY <1>3, <1>4, NumberAssumption DEF SInv, Fits
<1>6. ASSUME NEW d \in Bots, pc'[d] = "open" PROVE Counts(d)'
  <2>1. d = b
    BY DEF OneBot
  <2>2. adm' = [adm EXCEPT ![b] =
              [held |-> {SymbolOf[s] : s \in OpenIn(table)},
               cooling |-> CoolingIn(table'), locked |-> LockedIn(table'),
               long |-> SideOf(table, TRUE), short |-> SideOf(table, FALSE),
               load |-> [c \in Targets |-> SeatsTaken(c)]]]
    BY <1>1, <1>6, <2>1 DEF Survey, TypeOK
  <2>3. /\ adm'[b].long = SideOf(table, TRUE) /\ adm'[b].short = SideOf(table, FALSE)
        /\ \A c \in Targets : adm'[b].load[c] = LoadOf(table, c)
    BY <1>1, <2>2 DEF TypeOK, SeatsTaken
  <2>4. \A c \in Targets : LoadOf(table, c)' <= adm'[b].load[c]
    BY <1>3, <2>3
  <2>5. \A isLong \in BOOLEAN : SideOf(table, isLong)' <= Counted(b, isLong)'
    BY <1>3, <2>3 DEF Counted
  <2>6. QED
    BY <2>1, <2>4, <2>5 DEF Counts
<1>7. QED
  BY <1>5, <1>6 DEF SInv

LEMMA InitSeats == ASSUME Cardinality(Legacy) <= SlotCap PROVE Init => SInv
<1> SUFFICES ASSUME Init PROVE SInv
  OBVIOUS
<1>1. PICK cast \in Casts, live \in StartModes :
        InitFleet(cast.sources, live) /\ pc = [b \in Bots |-> IF b \in cast.bots THEN "down" ELSE "absent"]
  BY DEF Init
<1>2. OpenIn(table) \subseteq Legacy /\ Legacy \in SUBSET Sources
  BY <1>1, RowStates, SourceAssumption DEF InitFleet, OpenIn
<1>3. ASSUME NEW c \in Targets PROVE LoadOf(table, c) <= SlotCap
  <2>1. SeatsOf(table, c) \in SUBSET Legacy
    BY <1>2 DEF SeatsOf
  <2>2. Cardinality(SeatsOf(table, c)) \in Nat /\ Cardinality(Legacy) \in Nat
        /\ Cardinality(SeatsOf(table, c)) <= Cardinality(Legacy)
    BY <1>2, <2>1, CountSubset, SourcesCounted
  <2>3. LoadOf(table, c) = Cardinality(SeatsOf(table, c))
    BY DEF LoadOf, SeatsOf
  <2>4. QED
    BY <2>2, <2>3, NumberAssumption
<1>4. QED
  BY <1>1, <1>3, InitTypes DEF SInv, Fits

LEMMA StepSeats ==
    ASSUME OneBot, SInv, [Next]_vars
    PROVE  SInv'
<1>1. TypeOK /\ TypeOK'
  BY TypesKept DEF SInv
<1>2. ASSUME NEW b \in Bots, NEW s \in Sources, Mirror(b, s) PROVE SInv'
  BY <1>1, <1>2, SeatsMirror
<1>3. ASSUME NEW b \in Bots, NEW s \in Sources, Refuse(b, s) \/ PassOver(b, s) PROVE SInv'
  BY <1>1, <1>3, SeatsPassedOver
<1>4. ASSUME NEW b \in Bots, Survey(b) PROVE SInv'
  BY <1>1, <1>4, SeatsSurveyed
<1>5. ASSUME adm' = adm, \A b \in Bots : pc'[b] = "open" => pc[b] = "open",
             \A t \in Sources : Kept(t)
      PROVE  SInv'
  <2>1. ASSUME NEW b \in Bots
        PROVE  /\ \A c \in Targets : adm'[b].load[c] >= adm[b].load[c]
               /\ \A isLong \in BOOLEAN : Counted(b, isLong)' >= Counted(b, isLong)
    <3>1. /\ \A c \in Targets : adm[b].load[c] \in Nat
          /\ \A isLong \in BOOLEAN : Counted(b, isLong) \in Nat
      BY <1>1 DEF TypeOK, Counted
    <3>2. \A isLong \in BOOLEAN : Counted(b, isLong)' = Counted(b, isLong)
      BY <1>5 DEF Counted
    <3>3. ASSUME NEW c \in Targets PROVE adm'[b].load[c] >= adm[b].load[c]
      <4>1. adm'[b].load[c] = adm[b].load[c] /\ adm[b].load[c] \in Nat
        BY <1>5, <3>1
      <4>2. QED
        BY <4>1
    <3>4. ASSUME NEW isLong \in BOOLEAN PROVE Counted(b, isLong)' >= Counted(b, isLong)
      <4>1. Counted(b, isLong)' = Counted(b, isLong) /\ Counted(b, isLong) \in Nat
        BY <3>1, <3>2
      <4>2. QED
        BY <4>1
    <3>5. QED
      BY <3>3, <3>4
  <2>2. QED
    BY <1>1, <1>5, <2>1, SeatsLeft
<1>6. CASE UNCHANGED vars
  <2>1. \A t \in Sources : Kept(t)
    BY <1>6, SameRowKept DEF vars
  <2>2. QED
    BY <1>5, <1>6, <2>1 DEF vars, botvars
<1>7. CASE Fleet
  <2>1. \A t \in Sources : Kept(t)
    BY <1>1, <1>7, FleetKeeps
  <2>2. pc' = pc /\ adm' = adm
    BY <1>7 DEF Fleet, Forward, Toggle, SourceCloses, SourceAges, RowAges, Deliver, Lose, Settles, CornixExits, botvars
  <2>3. QED
    BY <1>5, <2>1, <2>2
<1>8. ASSUME NEW b \in Bots, NEW s \in Sources, Poll(b, s) PROVE SInv'
  <2>1. \A t \in Sources : Kept(t)
    BY <1>1, <1>8, PollKeeps
  <2>2. pc' = pc /\ adm' = adm
    BY <1>8 DEF Poll, FollowSource, SkipUnpriced, BookStop, AwaitFill, TrailClose, TimeStop, Hold, Polling
  <2>3. QED
    BY <1>5, <2>1, <2>2
<1>9. ASSUME NEW b \in Bots, Start(b) \/ ReadSources(b) \/ ReadMirrors(b) PROVE SInv'
  <2>1. \A t \in Sources : Kept(t)
    BY <1>1, <1>9, CycleKeeps
  <2>2. adm' = adm /\ \A d \in Bots : pc'[d] = "open" => pc[d] = "open"
    BY <1>1, <1>9 DEF Start, ReadSources, ReadMirrors, TypeOK
  <2>3. QED
    BY <1>5, <2>1, <2>2
<1>10. ASSUME NEW b \in Bots, Fail(b) \/ Die(b) PROVE SInv'
  <2>1. \A t \in Sources : Kept(t)
    BY <1>1, <1>10, CycleKeeps
  <2>2. \A d \in Bots : pc'[d] # "open"
    BY <1>1, <1>10 DEF Fail, Die, TypeOK, OneBot
  <2>3. QED
    BY <1>1, <2>1, <2>2, SeatsLeft
<1>11. QED
  BY <1>2, <1>3, <1>4, <1>6, <1>7, <1>8, <1>9, <1>10 DEF Next, Cycle, Open

LEMMA InductiveSeats ==
    ASSUME OneBot, Cardinality(Legacy) <= SlotCap
    PROVE  Spec => []SInv
<1>1. SInv /\ [Next]_vars => SInv'
  BY StepSeats
<1>2. QED
  BY <1>1, InitSeats, PTL DEF Spec

(* No channel ever holds more mirrors than Cornix accepts, if it did not   *)
(* when this version took over: the rows of the earlier one count (admit). *)
THEOREM SeatsHold ==
    ASSUME OneBot, Cardinality(Legacy) <= SlotCap
    PROVE  Spec => []SlotsRespected
<1>1. SInv => SlotsRespected
  BY DEF SInv, Fits, SlotsRespected
<1>2. QED
  BY <1>1, InductiveSeats, PTL

LEMMA StepOpens ==
    ASSUME OneBot, SInv, [Next]_vars, NEW s \in Sources, Opens(s), ExposureCap > 0
    PROVE  \E b \in Bots :
              pc[b] = "open" /\ SideOf(table, LongOf[s]) - Counted(b, ~LongOf[s]) < ExposureCap
<1>1. TypeOK
  BY DEF SInv
<1>2. ~Kept(s)
  BY DEF Opens, Kept
<1>3. PICK b \in Bots, t \in Sources : Mirror(b, t)
  BY <1>1, <1>2, StepRows
<1>4. s = t
  <2>1. \A u \in Sources \ {t} : table'[u] = table[u]
    BY <1>1, <1>3, MirrorOpens
  <2>2. QED
    BY <2>1 DEF Opens
<1>5. pc[b] = "open" /\ ~(Lead(adm[b], LongOf[s]) >= ExposureCap)
  BY <1>3, <1>4 DEF Mirror, Considering, Refused
<1>6. SideOf(table, LongOf[s]) <= Counted(b, LongOf[s]) /\ LongOf[s] \in BOOLEAN
  BY <1>5, SourceAssumption DEF SInv, Counts
<1>7. Lead(adm[b], LongOf[s]) = Counted(b, LongOf[s]) - Counted(b, ~LongOf[s])
  BY <1>6 DEF Lead, Counted
<1>8. /\ Counted(b, LongOf[s]) \in Nat /\ Counted(b, ~LongOf[s]) \in Nat
      /\ SideOf(table, LongOf[s]) \in Nat
  BY <1>1, <1>6, CountsTyped, ChannelFacts
<1>9. QED
  BY <1>5, <1>6, <1>7, <1>8, NumberAssumption

(* A mirror opens only while its direction leads by less than the cap, in  *)
(* the counts of the pass that opens it (admit).                           *)
THEOREM ExposureHolds ==
    ASSUME OneBot, Cardinality(Legacy) <= SlotCap
    PROVE  Spec => ExposureBounded
<1>1. SInv /\ [Next]_vars =>
        [\A s \in Sources : Opens(s) /\ ExposureCap > 0 => \E b \in Bots :
            pc[b] = "open" /\ SideOf(table, LongOf[s]) - Counted(b, ~LongOf[s]) < ExposureCap]_vars
  BY StepOpens
<1>2. QED
  BY <1>1, InductiveSeats, PTL DEF Spec, ExposureBounded
-----------------------------------------------------------------------------
(* Trades.  Every trade, and every entry on its way, is watched by an open *)
(* row of its channel or has a Close of its symbol behind it.              *)

\* Posting is on while a posted row is open.
LiveRows == \A b \in Bots, s \in Sources :
    table[s].state = "open" /\ table[s].posted => posting[b]
\* A poll that sees a stop reached finds no trade, and no entry, left.
StoppedAway == \A b \in Bots : \A s \in DOMAIN mine[b] :
    Quote(b, s) # NoPrice /\ StopSeen(b, s) => ~Queued(s) /\ \A x \in cornix : x[2] # s
Trades == LiveRows /\ StoppedAway /\ NoTradeForgotten

CloseOf(s) == [command |-> "close", source |-> s]
EntryOf(s) == [command |-> "entry", source |-> s]
Idle(s) == ~Queued(s) /\ \A x \in cornix : x[2] # s

LEMMA AppendFacts ==
    ASSUME NEW q \in Seq(Commands), NEW m \in Commands
    PROVE  /\ Append(q, m) \in Seq(Commands)
           /\ DOMAIN q = 1 .. Len(q) /\ Len(q) \in Nat
           /\ DOMAIN Append(q, m) = 1 .. Len(q) + 1
           /\ \A i \in 1 .. Len(q) : Append(q, m)[i] = q[i]
           /\ Append(q, m)[Len(q) + 1] = m
OBVIOUS

LEMMA BehindKept ==
    ASSUME NEW c \in Targets, NEW s \in Sources, NEW i \in Nat, TypeOK,
           outbox'[c] = outbox[c] \/ \E m \in Commands : outbox'[c] = Append(outbox[c], m),
           CloseBehind(c, s, i)
    PROVE  CloseBehind(c, s, i)'
<1>1. outbox[c] \in Seq(Commands)
  BY DEF TypeOK
<1>2. PICK j \in DOMAIN outbox[c] :
        /\ j > i /\ outbox[c][j].command = "close"
        /\ SymbolOf[outbox[c][j].source] = SymbolOf[s]
  BY DEF CloseBehind
<1>3. j \in DOMAIN outbox'[c] /\ outbox'[c][j] = outbox[c][j]
  BY <1>1, AppendFacts
<1>4. QED
  BY <1>2, <1>3 DEF CloseBehind

LEMMA NewCloseBehind ==
    ASSUME NEW c \in Targets, NEW s \in Sources, TypeOK, NEW i \in 0 .. Len(outbox[c]),
           outbox'[c] = Append(outbox[c], CloseOf(s))
    PROVE  CloseBehind(c, s, i)'
<1>1. outbox[c] \in Seq(Commands) /\ CloseOf(s) \in Commands
  BY DEF TypeOK, Commands, CloseOf
<1>2. Len(outbox[c]) + 1 \in DOMAIN outbox'[c] /\ outbox'[c][Len(outbox[c]) + 1] = CloseOf(s)
      /\ Len(outbox[c]) + 1 > i
  BY <1>1, AppendFacts
<1>3. QED
  BY <1>2 DEF CloseBehind, CloseOf

(* A step that does not deliver: what ceases to be watched has a Close     *)
(* posted behind it, or is neither in a trade nor on its way.              *)
Released(c, s) == outbox'[c] = Append(outbox[c], CloseOf(s)) \/ Idle(s)
AllReleased == \A c \in Targets, s \in Sources : Watched(c, s) => Watched(c, s)' \/ Released(c, s)
OneClose(s) == \A c \in Targets :
    outbox'[c] = outbox[c] \/ outbox'[c] = Append(outbox[c], CloseOf(s))
LEMMA NoneForgotten ==
    ASSUME TypeOK, NoTradeForgotten, cornix' \subseteq cornix, stranded \subseteq stranded',
           \A c \in Targets :
              \/ outbox'[c] = outbox[c]
              \/ \E m \in Commands : /\ outbox'[c] = Append(outbox[c], m)
                                     /\ m.command = "entry" => Watched(c, m.source)',
           AllReleased
    PROVE  NoTradeForgotten'
<1>1. \A c \in Targets : outbox[c] \in Seq(Commands) /\ Len(outbox[c]) \in Nat
                         /\ DOMAIN outbox[c] = 1 .. Len(outbox[c])
  BY DEF TypeOK
<1>2. \A c \in Targets : outbox'[c] = outbox[c] \/ \E m \in Commands : outbox'[c] = Append(outbox[c], m)
  OBVIOUS
<1>3. ASSUME NEW c \in Targets, NEW s \in Sources, NEW i \in 0 .. Len(outbox[c]), ~Idle(s),
             Watched(c, s) \/ CloseBehind(c, s, i)
      PROVE  Watched(c, s)' \/ CloseBehind(c, s, i)'
  <2>1. CASE Watched(c, s)
    BY <1>3, <2>1, NewCloseBehind DEF AllReleased, Released
  <2>2. CASE CloseBehind(c, s, i)
    <3>1. i \in Nat
      BY <1>1
    <3>2. QED
      BY <1>2, <2>2, <3>1, BehindKept
  <2>3. QED
    BY <1>3, <2>1, <2>2
<1>4. ASSUME NEW x \in cornix', x \notin stranded'
      PROVE  Watched(x[1], x[2])' \/ CloseBehind(x[1], x[2], 0)'
  <2>1. x \in cornix /\ x[1] \in Targets /\ x[2] \in Sources
    BY <1>4 DEF TypeOK
  <2>2. ~Idle(x[2]) /\ 0 \in 0 .. Len(outbox[x[1]])
    BY <1>1, <2>1 DEF Idle
  <2>3. Watched(x[1], x[2]) \/ CloseBehind(x[1], x[2], 0)
    BY <1>4, <2>1 DEF NoTradeForgotten
  <2>4. QED
    BY <1>3, <2>1, <2>2, <2>3
<1>5. ASSUME NEW c \in Targets, NEW i \in DOMAIN outbox'[c], outbox'[c][i].command = "entry",
             NEW s, s = outbox'[c][i].source
      PROVE  Watched(c, s)' \/ CloseBehind(c, s, i)'
  <2>1. CASE i \in DOMAIN outbox[c]
    <3>1. outbox'[c][i] = outbox[c][i]
      BY <1>1, <1>2, <2>1, AppendFacts
    <3>2. s = outbox[c][i].source /\ outbox[c][i].command = "entry"
      BY <1>5, <3>1
    <3>3. outbox[c][i] \in Commands
      BY <1>1, <2>1
    <3>4. s \in Sources
      BY <3>2, <3>3 DEF Commands
    <3>5. ~Idle(s)
      BY <2>1, <3>2 DEF Idle, Queued
    <3>6. Watched(c, s) \/ CloseBehind(c, s, i)
      BY <2>1, <3>2 DEF NoTradeForgotten
    <3>7. i \in 0 .. Len(outbox[c])
      BY <1>1, <2>1
    <3>8. QED
      BY <1>3, <3>4, <3>5, <3>6, <3>7
  <2>2. CASE i \notin DOMAIN outbox[c]
    <3>1. PICK m \in Commands : outbox'[c] = Append(outbox[c], m)
                                /\ (m.command = "entry" => Watched(c, m.source)')
      BY <1>5, <2>2
    <3>2. i = Len(outbox[c]) + 1
      BY <1>1, <1>5, <2>2, <3>1, AppendFacts
    <3>3. outbox'[c][i] = m
      BY <1>1, <3>1, <3>2, AppendFacts
    <3>4. s = m.source /\ m.command = "entry"
      BY <1>5, <3>3
    <3>5. QED
      BY <3>1, <3>4
  <2>3. QED
    BY <2>1, <2>2
<1>6. \A c \in Targets : \A i \in DOMAIN outbox'[c] : outbox'[c][i].command = "entry" =>
        Watched(c, outbox[c][i].source)' \/ CloseBehind(c, outbox[c][i].source, i)'
  BY <1>5
<1>7. QED
  BY <1>4, <1>6 DEF NoTradeForgotten

LEMMA TailFacts ==
    ASSUME NEW q \in Seq(Commands), q # << >>
    PROVE  /\ Head(q) = q[1] /\ Head(q) \in Commands /\ Tail(q) \in Seq(Commands)
           /\ Len(q) \in Nat /\ Len(q) >= 1 /\ DOMAIN q = 1 .. Len(q)
           /\ DOMAIN Tail(q) = 1 .. Len(q) - 1
           /\ \A i \in 1 .. Len(q) - 1 : Tail(q)[i] = q[i + 1]
OBVIOUS

(* What it does to the queues and the trades that a row is settled.        *)
LEMMA Delivered ==
    ASSUME TypeOK, NEW c \in Targets, Deliver(c) \/ Lose(c)
    PROVE  /\ outbox[c] \in Seq(Commands) /\ outbox[c] # << >>
           /\ outbox'[c] = Tail(outbox[c])
           /\ \A d \in Targets \ {c} : outbox'[d] = outbox[d]
           /\ table' = table /\ stranded \subseteq stranded'
           /\ \/ cornix' = cornix /\ outbox[c][1].command = "entry"
              \/ /\ outbox[c][1].command = "entry"
                 /\ cornix' = cornix \cup {<<c, outbox[c][1].source>>}
              \/ /\ outbox[c][1].command = "close" /\ cornix' \subseteq cornix
                 /\ \A x \in cornix :
                      IF x[1] = c /\ SymbolOf[x[2]] = SymbolOf[outbox[c][1].source]
                        THEN x \in cornix' => x \in stranded'
                        ELSE x \in cornix'
<1>1. outbox[c] \in Seq(Commands) /\ outbox[c] # << >>
  BY DEF Deliver, Lose, Settles, TypeOK
<1>2. Head(outbox[c]) = outbox[c][1] /\ Head(outbox[c]).command \in {"entry", "close"}
  <2>1. Head(outbox[c]) = outbox[c][1] /\ Head(outbox[c]) \in Commands
    BY <1>1, TailFacts
  <2>2. QED
    BY <2>1 DEF Commands
<1>3. outbox'[c] = Tail(outbox[c]) /\ \A d \in Targets \ {c} : outbox'[d] = outbox[d]
  BY DEF Deliver, Lose, Settles, TypeOK
<1>4. table' = table /\ stranded \subseteq stranded'
  BY DEF Deliver, Lose, Settles
<1>5. CASE Head(outbox[c]).command = "entry"
  <2>1. cornix' = cornix \/ cornix' = cornix \cup {<<c, outbox[c][1].source>>}
    BY <1>2, <1>5 DEF Deliver, Lose
  <2>2. QED
    BY <1>1, <1>2, <1>3, <1>4, <1>5, <2>1
<1>6. CASE Head(outbox[c]).command # "entry"
  <2>1. CASE Deliver(c)
    <3>1. cornix' = cornix \ {x \in cornix : x[1] = c /\ SymbolOf[x[2]] = SymbolOf[outbox[c][1].source]}
      BY <1>2, <1>6, <2>1 DEF Deliver, Addressed
    <3>2. QED
      BY <1>1, <1>2, <1>3, <1>4, <1>6, <3>1
  <2>2. CASE Lose(c)
    <3>1. /\ cornix' = cornix
          /\ stranded' = stranded \cup
                {x \in cornix : x[1] = c /\ SymbolOf[x[2]] = SymbolOf[outbox[c][1].source]}
      BY <1>2, <1>6, <2>2 DEF Lose, Addressed
    <3>2. QED
      BY <1>1, <1>2, <1>3, <1>4, <1>6, <3>1
  <2>3. QED
    BY <2>1, <2>2
<1>7. QED
  BY <1>5, <1>6

LEMMA BehindShifts ==
    ASSUME TypeOK, NEW c \in Targets, Deliver(c) \/ Lose(c), NEW s \in Sources, NEW k \in Nat,
           CloseBehind(c, s, k + 1)
    PROVE  CloseBehind(c, s, k)'
<1>1. PICK j \in DOMAIN outbox[c] :
        /\ j > k + 1 /\ outbox[c][j].command = "close"
        /\ SymbolOf[outbox[c][j].source] = SymbolOf[s]
  BY DEF CloseBehind
<1>2. j - 1 \in DOMAIN outbox'[c] /\ outbox'[c][j - 1] = outbox[c][j] /\ j - 1 > k
  <2>1. outbox[c] \in Seq(Commands) /\ outbox[c] # << >> /\ outbox'[c] = Tail(outbox[c])
    BY Delivered
  <2>2. j \in 1 .. Len(outbox[c]) /\ Len(outbox[c]) \in Nat /\ j - 1 \in 1 .. Len(outbox[c]) - 1
    BY <1>1, <2>1, TailFacts
  <2>3. outbox'[c][j - 1] = outbox[c][(j - 1) + 1] /\ j - 1 \in DOMAIN outbox'[c]
    BY <2>1, <2>2, TailFacts
  <2>4. QED
    BY <1>1, <2>2, <2>3
<1>3. QED
  BY <1>1, <1>2 DEF CloseBehind

LEMMA DeliverTrades ==
    ASSUME TypeOK, NoTradeForgotten, NEW c \in Targets, Deliver(c) \/ Lose(c)
    PROVE  NoTradeForgotten'
<1>1. outbox[c] \in Seq(Commands) /\ outbox[c] # << >> /\ outbox[c][1] \in Commands
      /\ DOMAIN outbox[c] = 1 .. Len(outbox[c]) /\ Len(outbox[c]) \in Nat /\ Len(outbox[c]) >= 1
  BY Delivered, TailFacts
<1>2. outbox[c][1].source \in Sources
  BY <1>1 DEF Commands
<1>3. \A d \in Targets, s \in Sources : Watched(d, s) => Watched(d, s)'
  BY Delivered DEF Watched
<1>4. ASSUME NEW d \in Targets \ {c}, NEW s \in Sources, NEW i \in Nat, CloseBehind(d, s, i)
      PROVE  CloseBehind(d, s, i)'
  <2>1. outbox'[d] = outbox[d]
    BY Delivered
  <2>2. QED
    BY <1>4, <2>1 DEF CloseBehind
<1>5. ASSUME NEW x \in cornix', x \notin stranded'
      PROVE  Watched(x[1], x[2])' \/ CloseBehind(x[1], x[2], 0)'
  <2>1. CASE x \in cornix
    <3>1. x[1] \in Targets /\ x[2] \in Sources
      BY <2>1 DEF TypeOK
    <3>2. Watched(x[1], x[2]) \/ CloseBehind(x[1], x[2], 0)
      BY <1>5, <2>1, Delivered DEF NoTradeForgotten
    <3>3. CASE Watched(x[1], x[2])
      BY <1>3, <3>1, <3>3
    <3>4. CASE CloseBehind(x[1], x[2], 0) /\ x[1] # c
      BY <1>4, <3>1, <3>4
    <3>5. CASE CloseBehind(x[1], x[2], 0) /\ x[1] = c
      <4>1. PICK j \in DOMAIN outbox[c] :
              /\ j > 0 /\ outbox[c][j].command = "close"
              /\ SymbolOf[outbox[c][j].source] = SymbolOf[x[2]]
        BY <3>5 DEF CloseBehind
      <4>2. ~(outbox[c][1].command = "close" /\ SymbolOf[outbox[c][1].source] = SymbolOf[x[2]])
        BY <1>5, <3>5, Delivered
      <4>3. j > 0 + 1
        BY <1>1, <4>1, <4>2
      <4>4. CloseBehind(c, x[2], 0 + 1)
        BY <4>1, <4>3 DEF CloseBehind
      <4>5. CloseBehind(c, x[2], 0)'
        BY <3>1, <4>4, BehindShifts
      <4>6. QED
        BY <3>5, <4>5
    <3>6. QED
      BY <3>2, <3>3, <3>4, <3>5
  <2>2. CASE x \notin cornix
    <3>1. outbox[c][1].command = "entry" /\ x = <<c, outbox[c][1].source>>
      BY <1>5, <2>2, Delivered
    <3> DEFINE s == outbox[c][1].source
    <3>2. 1 \in DOMAIN outbox[c]
      BY <1>1
    <3>3. Watched(c, s) \/ CloseBehind(c, s, 0 + 1)
      BY <3>1, <3>2 DEF NoTradeForgotten
    <3>4. s \in Sources /\ x[1] = c /\ x[2] = s
      BY <1>2, <3>1
    <3> HIDE DEF s
    <3>5. CASE Watched(c, s)
      BY <1>3, <3>4, <3>5
    <3>6. CASE CloseBehind(c, s, 0 + 1)
      <4>1. x[2] \in Sources /\ CloseBehind(c, x[2], 0 + 1)
        BY <3>4, <3>6
      <4>2. CloseBehind(c, x[2], 0)'
        BY <4>1, BehindShifts
      <4>3. QED
        BY <3>4, <4>2
    <3>7. QED
      BY <3>3, <3>5, <3>6
  <2>3. QED
    BY <2>1, <2>2
<1>6. ASSUME NEW d \in Targets, NEW i \in DOMAIN outbox'[d], outbox'[d][i].command = "entry",
             NEW s, s = outbox'[d][i].source
      PROVE  Watched(d, s)' \/ CloseBehind(d, s, i)'
  <2>1. CASE d # c
    <3>1. outbox'[d] = outbox[d] /\ outbox[d] \in Seq(Commands)
      BY <2>1, Delivered DEF TypeOK
    <3>2. outbox[d][i] \in Commands /\ i \in Nat
      BY <1>6, <3>1
    <3>3. s \in Sources
      BY <1>6, <3>1, <3>2 DEF Commands
    <3>4. Watched(d, s) \/ CloseBehind(d, s, i)
      BY <1>6, <3>1 DEF NoTradeForgotten
    <3>5. QED
      BY <1>3, <1>4, <2>1, <3>2, <3>3, <3>4
  <2>2. CASE d = c
    <3>1. outbox'[c] = Tail(outbox[c])
      BY Delivered
    <3>2. i \in 1 .. Len(outbox[c]) - 1 /\ outbox'[c][i] = outbox[c][i + 1]
      BY <1>1, <1>6, <2>2, <3>1, TailFacts
    <3>3. i \in Nat /\ i + 1 \in DOMAIN outbox[c]
      BY <1>1, <3>2
    <3>4. outbox[c][i + 1] \in Commands
      BY <1>1, <3>3
    <3>5. s \in Sources
      BY <1>6, <2>2, <3>2, <3>4 DEF Commands
    <3>6. Watched(c, s) \/ CloseBehind(c, s, i + 1)
      BY <1>6, <2>2, <3>2, <3>3 DEF NoTradeForgotten
    <3>7. QED
      BY <1>3, <2>2, <3>3, <3>5, <3>6, BehindShifts
  <2>3. QED
    BY <2>1, <2>2
<1>7. \A d \in Targets : \A i \in DOMAIN outbox'[d] : outbox'[d][i].command = "entry" =>
        Watched(d, outbox[d][i].source)' \/ CloseBehind(d, outbox[d][i].source, i)'
  BY <1>6
<1>8. QED
  BY <1>5, <1>7 DEF NoTradeForgotten

(* Nothing but a new mirror brings an entry for a source on its way.       *)
LEMMA IdleDelivered ==
    ASSUME TypeOK, NEW c \in Targets, Deliver(c) \/ Lose(c), NEW s \in Sources, Idle(s)
    PROVE  Idle(s)'
<1>1. outbox[c] \in Seq(Commands) /\ outbox[c] # << >> /\ DOMAIN outbox[c] = 1 .. Len(outbox[c])
      /\ Len(outbox[c]) \in Nat /\ Len(outbox[c]) >= 1
  BY Delivered, TailFacts
<1>2. \A x \in cornix' : x[2] # s
  <2>1. 1 \in DOMAIN outbox[c]
    BY <1>1
  <2>2. ~(outbox[c][1].command = "entry" /\ outbox[c][1].source = s)
    BY <2>1 DEF Idle, Queued
  <2>3. QED
    BY <2>2, Delivered DEF Idle
<1>3. ASSUME NEW d \in Targets, NEW i \in DOMAIN outbox'[d]
      PROVE  \E j \in DOMAIN outbox[d] : outbox'[d][i] = outbox[d][j]
  <2>1. CASE d = c
    <3>0. outbox'[c] = Tail(outbox[c])
      BY Delivered
    <3>1. i \in 1 .. Len(outbox[c]) - 1 /\ outbox'[c][i] = outbox[c][i + 1]
      BY <1>1, <1>3, <2>1, <3>0, TailFacts
    <3>2. i + 1 \in DOMAIN outbox[c]
      BY <1>1, <3>1
    <3>3. QED
      BY <2>1, <3>1, <3>2
  <2>2. CASE d # c
    BY <1>3, <2>2, Delivered
  <2>3. QED
    BY <2>1, <2>2
<1>4. ~Queued(s)'
  BY <1>3 DEF Idle, Queued
<1>5. QED
  BY <1>2, <1>4 DEF Idle

LEMMA IdleKept ==
    ASSUME TypeOK, NEW s \in Sources, Idle(s), cornix' \subseteq cornix,
           \A c \in Targets :
              \/ outbox'[c] = outbox[c]
              \/ \E m \in Commands : m.command # "entry" /\ outbox'[c] = Append(outbox[c], m)
    PROVE  Idle(s)'
<1>1. ASSUME NEW c \in Targets, NEW i \in DOMAIN outbox'[c], outbox'[c][i].command = "entry"
      PROVE  i \in DOMAIN outbox[c] /\ outbox'[c][i] = outbox[c][i]
  <2>1. outbox[c] \in Seq(Commands)
    BY DEF TypeOK
  <2>2. CASE outbox'[c] = outbox[c]
    BY <1>1, <2>2
  <2>3. ASSUME NEW m \in Commands, m.command # "entry", outbox'[c] = Append(outbox[c], m)
        PROVE  i \in DOMAIN outbox[c] /\ outbox'[c][i] = outbox[c][i]
    <3>1. i \in 1 .. Len(outbox[c]) + 1 /\ Len(outbox[c]) \in Nat
          /\ outbox'[c][Len(outbox[c]) + 1] = m
      BY <1>1, <2>1, <2>3, AppendFacts
    <3>2. i # Len(outbox[c]) + 1
      BY <1>1, <2>3, <3>1
    <3>3. i \in 1 .. Len(outbox[c])
      BY <3>1, <3>2
    <3>4. QED
      BY <2>1, <2>3, <3>3, AppendFacts
  <2>4. QED
    BY <2>2, <2>3
<1>2. ~Queued(s)'
  BY <1>1 DEF Idle, Queued
<1>3. QED
  BY <1>2 DEF Idle

(* The row that a poll closes is posted where its trade is.                *)
LEMMA CloseReleases ==
    ASSUME JInv, LiveRows, NEW b \in Bots, NEW s \in DOMAIN mine[b], NEW reason \in Reasons,
           NEW post \in BOOLEAN, post \/ Idle(s), CloseMirror(b, s, reason, post)
    PROVE  OneClose(s) /\ AllReleased
<1>1. TypeOK /\ s \in Sources /\ table[s].state = "open" /\ Alike(mine[b][s], table[s])
      /\ table[s] \in OpenRows
  BY RowKinds DEF JInv, Judging, TypeOK
<1>2. RowChannel(mine[b][s]) = RowChannel(table[s]) /\ mine[b][s].posted = table[s].posted
  BY <1>1 DEF Alike, RowChannel
<1>3. RowChannel(table[s]) \in Targets
  BY <1>1, RowChannelType
<1>4. \A t \in Sources \ {s} : table'[t] = table[t]
  BY <1>1 DEF CloseMirror, TypeOK
<1>5. outbox' = IF post /\ posting[b] /\ table[s].posted
                  THEN [outbox EXCEPT ![RowChannel(table[s])] = Append(@, CloseOf(s))] ELSE outbox
  BY <1>2 DEF CloseMirror, CloseOf
<1>6. OneClose(s)
  BY <1>1, <1>5 DEF TypeOK, OneClose
<1>7. ASSUME NEW c \in Targets, Watched(c, s) PROVE Released(c, s)
  <2>1. posting[b] /\ table[s].posted /\ RowChannel(table[s]) = c
    BY <1>1, <1>7 DEF Watched, LiveRows
  <2>2. CASE post
    BY <1>1, <1>5, <2>1, <2>2 DEF Released, TypeOK
  <2>3. QED
    BY <2>2 DEF Released
<1>8. ASSUME NEW c \in Targets, NEW t \in Sources, Watched(c, t) PROVE Watched(c, t)' \/ Released(c, t)
  <2>1. CASE t = s
    BY <1>7, <1>8, <2>1
  <2>2. CASE t # s
    BY <1>4, <1>8, <2>2 DEF Watched
  <2>3. QED
    BY <2>1, <2>2
<1>9. QED
  BY <1>6, <1>8 DEF AllReleased

LEMMA SameWatched ==
    ASSUME NEW c \in Targets, NEW t \in Sources, RowSame(t), Watched(c, t)
    PROVE  Watched(c, t)'
BY DEF RowSame, Alike, Watched, RowChannel

LEMMA PollTrades ==
    ASSUME OneBot, JInv, JInv', Trades, NEW b \in Bots, NEW s \in Sources, Poll(b, s)
    PROVE  Trades'
<1>1. TypeOK /\ Judging
  BY DEF JInv
<1>2. Polling(b, s) /\ posting' = posting /\ cornix' = cornix /\ price' = price
      /\ stranded' = stranded
  BY DEF Poll, FollowSource, SkipUnpriced, BookStop, AwaitFill, TrailClose, TimeStop, Hold, Polling
<1>3. s \in DOMAIN mine[b] /\ table[s].state = "open" /\ \A t \in Sources \ {s} : table'[t] = table[t]
  BY <1>1, PollFrame
<1>4. {"SOURCE_CLOSED", "LEG_RETIRED", "SL_HIT", "ENTRY_NOT_FILLED", "TRAIL", "TIME_STOP"} \subseteq Reasons
  BY DEF Reasons, Choices
<1>5. OneClose(s) /\ AllReleased
  <2>1. ASSUME NEW reason \in Reasons, NEW post \in BOOLEAN, CloseMirror(b, s, reason, post), post \/ Idle(s)
        PROVE  OneClose(s) /\ AllReleased
    BY <1>3, <2>1, CloseReleases DEF Trades
  <2>2. ASSUME outbox' = outbox, RowSame(s) PROVE OneClose(s) /\ AllReleased
    BY <1>3, <2>2, SameRow, SameWatched DEF OneClose, AllReleased
  <2>3. CASE FollowSource(b, s)
    BY <1>4, <2>1, <2>3 DEF FollowSource
  <2>4. CASE SkipUnpriced(b, s)
    BY <2>2, <2>4, SameRow DEF SkipUnpriced
  <2>5. CASE BookStop(b, s)
    <3>1. Idle(s)
      BY <1>3, <2>5 DEF BookStop, Trades, StoppedAway, Idle
    <3>2. QED
      BY <1>4, <2>1, <2>5, <3>1 DEF BookStop
  <2>6. CASE AwaitFill(b, s)
    <3>1. CASE table' = [table EXCEPT ![s].filled = TRUE] /\ outbox' = outbox
      <4>1. table[s] \in OpenRows /\ table'[s] = [table[s] EXCEPT !.filled = TRUE]
        BY <1>1, <1>3, <3>1, RowKinds DEF TypeOK
      <4>2. table'[s].state = "open" /\ table'[s].posted = table[s].posted /\ table'[s].channel = table[s].channel
        BY <4>1 DEF OpenRows
      <4>3. \A c \in Targets, t \in Sources : Watched(c, t) => Watched(c, t)'
        BY <1>3, <4>2 DEF Watched, RowChannel
      <4>4. QED
        BY <3>1, <4>3 DEF OneClose, AllReleased
    <3>2. CASE table' = table /\ outbox' = outbox
      BY <2>2, <3>2, SameRow
    <3>3. CASE CloseMirror(b, s, "ENTRY_NOT_FILLED", TRUE)
      BY <1>4, <2>1, <3>3
    <3>4. QED
      BY <1>3, <2>6, <3>1, <3>2, <3>3 DEF AwaitFill
  <2>7. CASE TrailClose(b, s)
    BY <1>4, <2>1, <2>7 DEF TrailClose
  <2>8. CASE TimeStop(b, s)
    BY <1>4, <2>1, <2>8 DEF TimeStop
  <2>9. CASE Hold(b, s)
    <3>1. CASE table' = [table EXCEPT ![s].peak = MarkNow(b, s)]
      <4>1. table[s] \in OpenRows /\ table'[s] = [table[s] EXCEPT !.peak = MarkNow(b, s)]
        BY <1>1, <1>3, <3>1, RowKinds DEF TypeOK
      <4>2. table'[s].state = "open" /\ table'[s].posted = table[s].posted /\ table'[s].channel = table[s].channel
        BY <4>1 DEF OpenRows
      <4>3. \A c \in Targets, t \in Sources : Watched(c, t) => Watched(c, t)'
        BY <1>3, <4>2 DEF Watched, RowChannel
      <4>4. QED
        BY <2>9, <4>3 DEF Hold, OneClose, AllReleased
    <3>2. CASE table' = table
      BY <2>2, <2>9, <3>2, SameRow DEF Hold
    <3>3. QED
      BY <2>9, <3>1, <3>2 DEF Hold
  <2>10. QED
    BY <2>3, <2>4, <2>5, <2>6, <2>7, <2>8, <2>9 DEF Poll
<1>6. CloseOf(s) \in Commands /\ CloseOf(s).command # "entry"
  BY DEF CloseOf, Commands
<1>7. NoTradeForgotten'
  BY <1>1, <1>2, <1>5, <1>6, NoneForgotten DEF Trades, OneClose
<1>8. LiveRows'
  <2>1. \A t \in Sources : Kept(t)
    BY <1>1, PollKeeps
  <2>2. QED
    BY <1>2, <2>1 DEF Trades, LiveRows, Kept
<1>9. StoppedAway'
  <2>1. mine'[b] = [t \in DOMAIN mine[b] \ {s} |-> mine[b][t]]
    BY <1>1, <1>2 DEF Polling, TypeOK
  <2>2. ASSUME NEW t \in DOMAIN mine'[b], Quote(b, t)' # NoPrice /\ StopSeen(b, t)' PROVE Idle(t)'
    <3>1. t \in DOMAIN mine[b] /\ mine'[b][t] = mine[b][t] /\ t \in Sources
      BY <1>1, <2>1, <2>2 DEF TypeOK
    <3>2. Quote(b, t) # NoPrice /\ StopSeen(b, t)
      BY <1>2, <2>2, <3>1 DEF StopSeen, Quote
    <3>3. Idle(t)
      BY <3>1, <3>2 DEF Trades, StoppedAway, Idle
    <3>4. QED
      BY <1>1, <1>2, <1>5, <1>6, <3>1, <3>3, IdleKept DEF OneClose
  <2>3. \A a \in Bots : a = b
    BY DEF OneBot
  <2>4. QED
    BY <2>2, <2>3 DEF StoppedAway, Idle
<1>10. QED
  BY <1>7, <1>8, <1>9 DEF Trades

(* A step of the cycle that posts nothing.                                 *)
LEMMA QuietTrades ==
    ASSUME TypeOK, NoTradeForgotten, cornix' = cornix, outbox' = outbox, stranded' = stranded,
           \A t \in Sources : table'[t] = table[t] \/ ~(table[t].state = "open" /\ table[t].posted)
    PROVE  NoTradeForgotten'
<1>1. \A c \in Targets, t \in Sources : Watched(c, t) => Watched(c, t)'
  BY DEF Watched
<1>2. QED
  BY <1>1, NoneForgotten DEF AllReleased

LEMMA StartTrades ==
    ASSUME OneBot, JInv, JInv', Trades, ~MayGoDark, NEW b \in Bots, Start(b)
    PROVE  Trades'
<1>1. TypeOK
  BY DEF JInv
<1>2. \A a \in Bots : a = b
  BY DEF OneBot
<1>3. \A t \in Sources : table'[t] = table[t] \/ ~(table[t].state = "open" /\ table[t].posted)
  BY DEF Start, CarryoverCleared
<1>4. NoTradeForgotten'
  BY <1>1, <1>3, QuietTrades DEF Start, Trades
<1>5. posting[b] => posting'[b]
  BY <1>1 DEF Start, TypeOK
<1>6. LiveRows'
  <2>1. \A t \in Sources : Kept(t)
    BY <1>1, CycleKeeps
  <2>2. QED
    BY <1>2, <1>5, <2>1 DEF LiveRows, Kept, Trades
<1>7. StoppedAway'
  <2>1. pc'[b] # "poll"
    BY <1>1 DEF Start, TypeOK
  <2>2. QED
    BY <1>2, <2>1 DEF JInv, Judging, StoppedAway
<1>8. QED
  BY <1>4, <1>6, <1>7 DEF Trades

LEMMA ReadTrades ==
    ASSUME OneBot, JInv, Trades, PromptEntries, NEW b \in Bots, ReadMirrors(b)
    PROVE  Trades'
<1>1. TypeOK
  BY DEF JInv
<1>2. \A a \in Bots : a = b
  BY DEF OneBot
<1>3. /\ table' = table /\ outbox' = outbox /\ cornix' = cornix /\ posting' = posting
      /\ stranded' = stranded
  BY DEF ReadMirrors
<1>4. LiveRows' /\ NoTradeForgotten'
  BY <1>1, <1>3, QuietTrades DEF Trades, LiveRows
<1>5. mine'[b] = [s \in OpenIn(table) |-> table[s]]
  BY <1>1 DEF ReadMirrors, TypeOK
<1>6. Quotable(price'[b])
  BY <1>1 DEF ReadMirrors, TypeOK
<1>7. ASSUME NEW s \in DOMAIN mine'[b], Quote(b, s)' # NoPrice /\ StopSeen(b, s)' PROVE Idle(s)'
  <2>1. s \in OpenIn(table) /\ mine'[b][s] = table[s] /\ s \in Sources
    BY <1>5, <1>7 DEF OpenIn
  <2>2. Stopped(s, price'[b][SymbolOf[s]])
    BY <1>7, <2>1 DEF Stopped, StopSeen, Quote, OpenIn
  <2>3. \A x \in cornix : x[2] # s
    BY <1>6, <2>1, <2>2 DEF Quotable
  <2>4. PromptEntries => ~Queued(s)
    BY <1>6, <2>1, <2>2 DEF Quotable
  <2>5. QED
    BY <1>3, <2>3, <2>4 DEF Idle, Queued
<1>8. QED
  BY <1>2, <1>4, <1>7 DEF Trades, StoppedAway, Idle

LEMMA RestTrades ==
    ASSUME OneBot, JInv, JInv', Trades, NEW b \in Bots,
           \/ ReadSources(b) \/ Survey(b) \/ Fail(b) \/ Die(b)
           \/ \E s \in Sources : Refuse(b, s) \/ PassOver(b, s)
    PROVE  Trades'
<1>1. TypeOK
  BY DEF JInv
<1>2. \A a \in Bots : a = b
  BY DEF OneBot
<1>3. outbox' = outbox /\ cornix' = cornix /\ posting' = posting /\ stranded' = stranded
  BY DEF ReadSources, Survey, Fail, Die, Refuse, PassOver, Considering
<1>4. \A t \in Sources : table'[t] = table[t] \/ ~(table[t].state = "open" /\ table[t].posted)
  <2>1. CASE Survey(b)
    <3>1. \A t \in Sources : table'[t] = table[t] \/ table[t] = NoRow
      BY <2>1 DEF Survey, StaleNoted, Unseen
    <3>2. QED
      BY <3>1, RowStates
  <2>2. CASE table' = table
    BY <2>2
  <2>3. QED
    BY <2>1, <2>2 DEF ReadSources, Fail, Die, Refuse, PassOver
<1>5. NoTradeForgotten'
  BY <1>1, <1>3, <1>4, QuietTrades DEF Trades
<1>6. LiveRows'
  <2>1. \A t \in Sources : Kept(t)
    BY <1>1, CycleKeeps
  <2>2. QED
    BY <1>3, <2>1 DEF LiveRows, Kept, Trades
<1>7. StoppedAway'
  <2>1. pc'[b] # "poll"
    BY <1>1 DEF ReadSources, Survey, Fail, Die, Refuse, PassOver, Considering, NextCandidate, TypeOK
  <2>2. QED
    BY <1>2, <2>1 DEF JInv, Judging, StoppedAway
<1>8. QED
  BY <1>5, <1>6, <1>7 DEF Trades

LEMMA MirrorTrades ==
    ASSUME OneBot, JInv, JInv', Trades, NEW b \in Bots, NEW s \in Sources, Mirror(b, s)
    PROVE  Trades'
<1> DEFINE e == Emptiest(adm[b].load)
<1>1. TypeOK /\ adm[b].load \in [Targets -> Nat]
  BY DEF JInv, TypeOK
<1>2. \A a \in Bots : a = b
  BY DEF OneBot
<1>3. e \in Targets /\ e # NoChannel
  BY <1>1, EmptiestIsLeast, ChannelFacts
<1>4. /\ table[s] = NoRow /\ table'[s].state = "open" /\ table'[s].posted = posting[b]
      /\ table'[s].channel = e /\ \A t \in Sources \ {s} : table'[t] = table[t]
  BY <1>1, MirrorOpens
<1>5. cornix' = cornix /\ posting' = posting /\ stranded' = stranded
  BY DEF Mirror, Considering
<1>6. outbox' = IF posting[b] THEN [outbox EXCEPT ![e] = Append(@, EntryOf(s))] ELSE outbox
  BY DEF Mirror, EntryOf
<1> HIDE DEF e
<1>7. ASSUME NEW c \in Targets
      PROVE  \/ outbox'[c] = outbox[c]
             \/ \E m \in Commands : /\ outbox'[c] = Append(outbox[c], m)
                                    /\ m.command = "entry" => Watched(c, m.source)'
  <2>1. CASE posting[b] /\ c = e
    <3>1. outbox'[c] = Append(outbox[c], EntryOf(s))
      BY <1>1, <1>3, <1>6, <2>1 DEF TypeOK
    <3>2. EntryOf(s) \in Commands /\ EntryOf(s).source = s
      BY DEF EntryOf, Commands
    <3>3. RowChannel(table'[s]) = c
      BY <1>3, <1>4, <2>1 DEF RowChannel
    <3>4. Watched(c, s)'
      BY <1>4, <2>1, <3>3 DEF Watched
    <3>5. QED
      BY <3>1, <3>2, <3>4
  <2>2. CASE ~(posting[b] /\ c = e)
    BY <1>1, <1>6, <2>2 DEF TypeOK
  <2>3. QED
    BY <2>1, <2>2
<1>8. AllReleased
  BY <1>4, RowStates DEF AllReleased, Watched
<1>9. NoTradeForgotten'
  BY <1>1, <1>5, <1>7, <1>8, NoneForgotten DEF Trades
<1>10. LiveRows'
  BY <1>2, <1>4, <1>5 DEF LiveRows, Trades
<1>11. StoppedAway'
  <2>1. pc'[b] # "poll"
    BY <1>1 DEF Mirror, Considering, NextCandidate, TypeOK
  <2>2. QED
    BY <1>2, <2>1 DEF JInv, Judging, StoppedAway
<1>12. QED
  BY <1>9, <1>10, <1>11 DEF Trades

LEMMA FleetTrades ==
    ASSUME JInv, Trades, Fleet
    PROVE  Trades'
<1>1. TypeOK /\ \A t \in Sources : RowSame(t)
  BY FleetRows DEF JInv
<1>2. posting' = posting /\ mine' = mine /\ price' = price
  BY DEF Fleet, Forward, Toggle, SourceCloses, SourceAges, RowAges, Deliver, Lose, Settles, CornixExits, botvars
<1>3. LiveRows'
  BY <1>1, <1>2 DEF LiveRows, RowSame, Alike, Trades
<1>4. NoTradeForgotten'
  <2>1. ASSUME NEW c \in Targets, Deliver(c) \/ Lose(c) PROVE NoTradeForgotten'
    BY <1>1, <2>1, DeliverTrades DEF Trades
  <2>2. CASE cornix' \subseteq cornix /\ outbox' = outbox /\ stranded' = stranded
    <3>1. AllReleased
      BY <1>1, SameWatched DEF AllReleased
    <3>2. QED
      BY <1>1, <2>2, <3>1, NoneForgotten DEF Trades
  <2>3. QED
    BY <2>1, <2>2 DEF Fleet, Forward, Toggle, SourceCloses, SourceAges, RowAges, CornixExits
<1>5. ASSUME NEW s \in Sources, Idle(s) PROVE Idle(s)'
  <2>1. ASSUME NEW c \in Targets, Deliver(c) \/ Lose(c) PROVE Idle(s)'
    BY <1>1, <1>5, <2>1, IdleDelivered
  <2>2. CASE cornix' \subseteq cornix /\ outbox' = outbox
    BY <1>1, <1>5, <2>2, IdleKept
  <2>3. QED
    BY <2>1, <2>2 DEF Fleet, Forward, Toggle, SourceCloses, SourceAges, RowAges, CornixExits
<1>6. StoppedAway'
  <2>1. ASSUME NEW b \in Bots, NEW s \in DOMAIN mine'[b], Quote(b, s)' # NoPrice /\ StopSeen(b, s)'
        PROVE  Idle(s)'
    <3>1. s \in DOMAIN mine[b] /\ s \in Sources
      BY <1>1, <1>2 DEF TypeOK
    <3>2. Quote(b, s) # NoPrice /\ StopSeen(b, s)
      BY <1>2, <2>1 DEF StopSeen, Quote
    <3>3. Idle(s)
      BY <3>1, <3>2 DEF Trades, StoppedAway, Idle
    <3>4. QED
      BY <1>5, <3>1, <3>3
  <2>2. QED
    BY <2>1 DEF StoppedAway, Idle
<1>7. QED
  BY <1>3, <1>4, <1>6 DEF Trades

LEMMA InitTrades == Init => Trades
<1> SUFFICES ASSUME Init PROVE Trades
  OBVIOUS
<1>1. PICK cast \in Casts, live \in StartModes : InitFleet(cast.sources, live)
  BY DEF Init
<1>2. \A s \in Sources : table[s].state = "open" => s \in Legacy \cap cast.sources /\ table[s] = LegacyRow(live)
  BY <1>1, RowStates DEF InitFleet
<1>3. LegacyRow(live).state = "open" /\ LegacyRow(live).posted = live /\ LegacyRow(live).channel = NoChannel
  BY DEF LegacyRow, MirrorRow
<1>4. LiveRows
  BY <1>1, <1>2, <1>3 DEF LiveRows, InitFleet
<1>5. StoppedAway
  BY DEF Init, StoppedAway, NoMirrors
<1>6. ASSUME NEW x \in cornix PROVE Watched(x[1], x[2])
  <2>1. live /\ x[1] = Channels[1] /\ x[2] \in Legacy \cap cast.sources /\ x[2] \in Sources
    BY <1>1, <1>6, SourceAssumption DEF InitFleet
  <2>2. table[x[2]] = LegacyRow(live)
    BY <1>1, <2>1 DEF InitFleet
  <2>3. QED
    BY <1>3, <2>1, <2>2 DEF Watched, RowChannel
<1>7. \A c \in Targets : DOMAIN outbox[c] = {}
  BY <1>1 DEF InitFleet
<1>8. NoTradeForgotten
  BY <1>6, <1>7 DEF NoTradeForgotten
<1>9. QED
  BY <1>4, <1>5, <1>8 DEF Trades

LEMMA StepTrades ==
    ASSUME OneBot, ~MayGoDark, PromptEntries, JInv, Trades, [Next]_vars
    PROVE  Trades'
<1>1. JInv'
  BY StepPeaks
<1>2. CASE UNCHANGED vars
  <2>1. /\ table' = table /\ outbox' = outbox /\ cornix' = cornix
        /\ posting' = posting /\ mine' = mine /\ price' = price /\ stranded' = stranded
    BY <1>2 DEF vars, botvars
  <2>2. LiveRows' /\ StoppedAway'
    BY <2>1 DEF Trades, LiveRows, StoppedAway, Quote, StopSeen, Queued
  <2>3. NoTradeForgotten'
    BY <2>1, QuietTrades DEF Trades, JInv
  <2>4. QED
    BY <2>2, <2>3 DEF Trades
<1>3. CASE Fleet
  BY <1>3, FleetTrades
<1>4. ASSUME NEW b \in Bots, Cycle(b) \/ Fail(b) \/ Die(b) PROVE Trades'
  BY <1>1, <1>4, StartTrades, ReadTrades, RestTrades, PollTrades, MirrorTrades DEF Cycle, Open
<1>5. QED
  BY <1>2, <1>3, <1>4 DEF Next

LEMMA InductiveTrades ==
    ASSUME OneBot, ~MayGoDark, PromptEntries
    PROVE  Spec => []Trades
<1>1. JInv /\ Trades /\ [Next]_vars => Trades'
  BY StepTrades
<1>2. QED
  BY <1>1, InitTrades, InductivePeaks, PTL DEF Spec

(* No trade is left without an open row or a Close on its way, but one     *)
(* whose Close the dispatcher has lost, while posting is not switched off  *)
(* over open mirrors and an entry reaches Cornix before the market reaches *)
(* its stop (close_mirror, open_mirrors).                                  *)
THEOREM NoneLeft ==
    ASSUME OneBot, ~MayGoDark, PromptEntries
    PROVE  Spec => []NoTradeForgotten
<1>1. Trades => NoTradeForgotten
  BY DEF Trades
<1>2. QED
  BY <1>1, InductiveTrades, PTL
-----------------------------------------------------------------------------
(* A Close ends its own trade only: a trade, or an entry, of another       *)
(* source on the symbol has a Close of its own in between.                 *)

CloseAmong(c, s, i, j) == \E k \in DOMAIN outbox[c] :
    /\ i < k /\ k < j /\ outbox[c][k].command = "close"
    /\ SymbolOf[outbox[c][k].source] = SymbolOf[s]
Own(c, j, s) ==
    /\ \A x \in cornix \ stranded :
          x[1] = c /\ SymbolOf[x[2]] = SymbolOf[s] /\ x[2] # s => CloseAmong(c, s, 0, j)
    /\ \A i \in DOMAIN outbox[c] :
          i < j /\ outbox[c][i].command = "entry" /\ outbox[c][i].source # s
          /\ SymbolOf[outbox[c][i].source] = SymbolOf[s] => CloseAmong(c, s, i, j)
Ordered == \A c \in Targets : \A j \in DOMAIN outbox[c], s \in Sources :
    outbox[c][j] = CloseOf(s) => Own(c, j, s)

LEMMA OwnAppended ==
    ASSUME TypeOK, NoTradeForgotten, OnePerSymbol, Ordered, cornix' \subseteq cornix,
           stranded \subseteq stranded',
           NEW c \in Targets,
           \/ outbox'[c] = outbox[c]
           \/ \E m \in Commands : /\ outbox'[c] = Append(outbox[c], m)
                                  /\ m.command = "close" => table[m.source].state = "open",
           NEW j \in DOMAIN outbox'[c], NEW s \in Sources, outbox'[c][j] = CloseOf(s)
    PROVE  Own(c, j, s)'
<1>1. outbox[c] \in Seq(Commands) /\ DOMAIN outbox[c] = 1 .. Len(outbox[c]) /\ Len(outbox[c]) \in Nat
  BY DEF TypeOK
<1>2. /\ DOMAIN outbox[c] \subseteq DOMAIN outbox'[c]
      /\ \A k \in DOMAIN outbox[c] : outbox'[c][k] = outbox[c][k]
  BY <1>1, AppendFacts
<1>3. j \in Nat /\ \A i \in DOMAIN outbox'[c] : i < j => i \in DOMAIN outbox[c]
  <2>1. CASE outbox'[c] = outbox[c]
    BY <1>1, <2>1
  <2>2. ASSUME NEW m \in Commands, outbox'[c] = Append(outbox[c], m)
        PROVE  j \in Nat /\ \A i \in DOMAIN outbox'[c] : i < j => i \in DOMAIN outbox[c]
    <3>1. DOMAIN outbox'[c] = 1 .. Len(outbox[c]) + 1
      BY <1>1, <2>2, AppendFacts
    <3>2. QED
      BY <1>1, <3>1
  <2>3. QED
    BY <2>1, <2>2
<1>4. ASSUME NEW i \in Nat, CloseAmong(c, s, i, j) PROVE CloseAmong(c, s, i, j)'
  BY <1>2, <1>4 DEF CloseAmong
<1>5. CASE j \in DOMAIN outbox[c]
  <2>1. Own(c, j, s)
    BY <1>2, <1>5 DEF Ordered
  <2>2. \A x \in cornix' \ stranded' :
            x[1] = c /\ SymbolOf[x[2]] = SymbolOf[s] /\ x[2] # s => CloseAmong(c, s, 0, j)'
    BY <1>4, <2>1 DEF Own
  <2>3. ASSUME NEW i \in DOMAIN outbox'[c], i < j, outbox'[c][i].command = "entry",
               SymbolOf[outbox'[c][i].source] = SymbolOf[s], outbox'[c][i].source # s
        PROVE  CloseAmong(c, s, i, j)'
    <3>1. i \in DOMAIN outbox[c] /\ outbox'[c][i] = outbox[c][i] /\ i \in Nat
      BY <1>1, <1>2, <1>3, <2>3
    <3>2. CloseAmong(c, s, i, j)
      BY <2>1, <2>3, <3>1 DEF Own
    <3>3. QED
      BY <1>4, <3>1, <3>2
  <2>4. \A i \in DOMAIN outbox'[c] :
          i < j /\ outbox'[c][i].command = "entry" /\ outbox'[c][i].source # s
          /\ SymbolOf[outbox'[c][i].source] = SymbolOf[s] => CloseAmong(c, s, i, j)'
    BY <2>3
  <2>5. QED
    BY <2>2, <2>4 DEF Own, CloseAmong
<1>6. CASE j \notin DOMAIN outbox[c]
  <2>1. PICK m \in Commands : outbox'[c] = Append(outbox[c], m)
                              /\ (m.command = "close" => table[m.source].state = "open")
    BY <1>6
  <2>2. j = Len(outbox[c]) + 1
    <3>1. DOMAIN outbox'[c] = 1 .. Len(outbox[c]) + 1
      BY <1>1, <2>1, AppendFacts
    <3>2. QED
      BY <1>1, <1>6, <3>1
  <2>3. m = CloseOf(s)
    BY <1>1, <2>1, <2>2, AppendFacts
  <2>4. s \in OpenIn(table)
    BY <2>1, <2>3 DEF CloseOf, OpenIn
  <2>5. ASSUME NEW t \in Sources, SymbolOf[t] = SymbolOf[s], t # s PROVE ~Watched(c, t)
    BY <2>4, <2>5 DEF Watched, OnePerSymbol, OpenIn
  <2>6. ASSUME NEW t \in Sources, SymbolOf[t] = SymbolOf[s], NEW i \in Nat, CloseBehind(c, t, i)
        PROVE  CloseAmong(c, s, i, j)'
    <3>1. PICK k \in DOMAIN outbox[c] :
            /\ k > i /\ outbox[c][k].command = "close"
            /\ SymbolOf[outbox[c][k].source] = SymbolOf[t]
      BY <2>6 DEF CloseBehind
    <3>2. k < j /\ i < k
      BY <1>1, <2>2, <3>1
    <3>3. CloseAmong(c, s, i, j)
      BY <2>6, <3>1, <3>2 DEF CloseAmong
    <3>4. QED
      BY <1>4, <3>3
  <2>7. ASSUME NEW x \in cornix' \ stranded', x[1] = c, SymbolOf[x[2]] = SymbolOf[s], x[2] # s
        PROVE  CloseAmong(c, s, 0, j)'
    <3>1. x \in cornix \ stranded /\ x[2] \in Sources
      BY <2>7 DEF TypeOK
    <3>2. CloseBehind(c, x[2], 0)
      BY <2>5, <2>7, <3>1 DEF NoTradeForgotten
    <3>3. QED
      BY <2>6, <2>7, <3>1, <3>2
  <2>8. ASSUME NEW i \in DOMAIN outbox'[c], i < j, outbox'[c][i].command = "entry",
               SymbolOf[outbox'[c][i].source] = SymbolOf[s], outbox'[c][i].source # s
        PROVE  CloseAmong(c, s, i, j)'
    <3>1. i \in DOMAIN outbox[c] /\ outbox'[c][i] = outbox[c][i] /\ i \in Nat
      BY <1>1, <1>2, <1>3, <2>8
    <3>2. outbox[c][i] \in Commands
      BY <1>1, <3>1
    <3>3. outbox[c][i].source \in Sources
      BY <3>2 DEF Commands
    <3>4. CloseBehind(c, outbox[c][i].source, i)
      BY <2>5, <2>8, <3>1, <3>3 DEF NoTradeForgotten
    <3>5. QED
      BY <2>6, <2>8, <3>1, <3>3, <3>4
  <2>9. \A i \in DOMAIN outbox'[c] :
          i < j /\ outbox'[c][i].command = "entry" /\ outbox'[c][i].source # s
          /\ SymbolOf[outbox'[c][i].source] = SymbolOf[s] => CloseAmong(c, s, i, j)'
    BY <2>8
  <2>10. QED
    BY <2>7, <2>9 DEF Own, CloseAmong
<1>7. QED
  BY <1>5, <1>6

LEMMA OwnDelivered ==
    ASSUME TypeOK, Ordered, NEW c \in Targets, Deliver(c) \/ Lose(c)
    PROVE  Ordered'
<1>1. outbox[c] \in Seq(Commands) /\ DOMAIN outbox[c] = 1 .. Len(outbox[c]) /\ Len(outbox[c]) \in Nat
      /\ Len(outbox[c]) >= 1 /\ DOMAIN Tail(outbox[c]) = 1 .. Len(outbox[c]) - 1
      /\ outbox'[c] = Tail(outbox[c])
      /\ \A i \in 1 .. Len(outbox[c]) - 1 : Tail(outbox[c])[i] = outbox[c][i + 1]
  BY Delivered, TailFacts
<1>2. ASSUME NEW i \in DOMAIN outbox'[c]
      PROVE  i \in Nat /\ i >= 1 /\ i + 1 \in DOMAIN outbox[c] /\ outbox'[c][i] = outbox[c][i + 1]
  BY <1>1, <1>2
<1>3. ASSUME NEW i \in Nat, NEW j \in Nat, NEW s \in Sources, CloseAmong(c, s, i + 1, j + 1)
      PROVE  CloseAmong(c, s, i, j)'
  <2>1. PICK k \in DOMAIN outbox[c] :
          /\ i + 1 < k /\ k < j + 1 /\ outbox[c][k].command = "close"
          /\ SymbolOf[outbox[c][k].source] = SymbolOf[s]
    BY <1>3 DEF CloseAmong
  <2>2. k - 1 \in DOMAIN outbox'[c] /\ i < k - 1 /\ k - 1 < j /\ (k - 1) + 1 = k
    BY <1>1, <2>1
  <2>3. outbox'[c][k - 1] = outbox[c][k]
    BY <1>2, <2>2
  <2>4. QED
    BY <2>1, <2>2, <2>3 DEF CloseAmong
<1>4. ASSUME NEW j \in DOMAIN outbox'[c], NEW s \in Sources, outbox'[c][j] = CloseOf(s)
      PROVE  Own(c, j, s)'
  <2>1. j \in Nat /\ j + 1 \in DOMAIN outbox[c] /\ outbox[c][j + 1] = CloseOf(s)
    BY <1>2, <1>4
  <2>2. Own(c, j + 1, s)
    BY <2>1 DEF Ordered
  <2>3. ASSUME NEW x \in cornix' \ stranded', x[1] = c, SymbolOf[x[2]] = SymbolOf[s], x[2] # s
        PROVE  CloseAmong(c, s, 0, j)'
    <3>1. CASE x \in cornix
      <4>0. x \notin stranded
        BY <2>3, Delivered
      <4>1. CloseAmong(c, s, 0, j + 1)
        BY <2>2, <2>3, <3>1, <4>0 DEF Own
      <4>2. PICK k \in DOMAIN outbox[c] :
              /\ 0 < k /\ k < j + 1 /\ outbox[c][k].command = "close"
              /\ SymbolOf[outbox[c][k].source] = SymbolOf[s]
        BY <4>1 DEF CloseAmong
      <4>3. ~(outbox[c][1].command = "close" /\ SymbolOf[outbox[c][1].source] = SymbolOf[s])
        BY <2>3, <3>1, Delivered
      <4>4. 0 + 1 < k
        BY <1>1, <4>2, <4>3
      <4>5. CloseAmong(c, s, 0 + 1, j + 1)
        BY <4>2, <4>4 DEF CloseAmong
      <4>6. QED
        BY <1>3, <2>1, <4>5
    <3>2. CASE x \notin cornix
      <4>1. outbox[c][1].command = "entry" /\ x = <<c, outbox[c][1].source>>
        BY <2>3, <3>2, Delivered
      <4>2. 1 \in DOMAIN outbox[c] /\ 1 < j + 1
        BY <1>1, <1>2, <1>4
      <4>3. CloseAmong(c, s, 1, j + 1)
        BY <2>2, <2>3, <4>1, <4>2 DEF Own
      <4>4. CloseAmong(c, s, 0 + 1, j + 1)
        BY <4>3
      <4>5. QED
        BY <1>3, <2>1, <4>4
    <3>3. QED
      BY <3>1, <3>2
  <2>4. ASSUME NEW i \in DOMAIN outbox'[c], i < j, outbox'[c][i].command = "entry",
               SymbolOf[outbox'[c][i].source] = SymbolOf[s], outbox'[c][i].source # s
        PROVE  CloseAmong(c, s, i, j)'
    <3>1. i \in Nat /\ i + 1 \in DOMAIN outbox[c] /\ outbox'[c][i] = outbox[c][i + 1] /\ i + 1 < j + 1
      BY <1>2, <2>1, <2>4
    <3>2. CloseAmong(c, s, i + 1, j + 1)
      BY <2>2, <2>4, <3>1 DEF Own
    <3>3. QED
      BY <1>3, <2>1, <3>1, <3>2
  <2>5. \A i \in DOMAIN outbox'[c] :
          i < j /\ outbox'[c][i].command = "entry" /\ outbox'[c][i].source # s
          /\ SymbolOf[outbox'[c][i].source] = SymbolOf[s] => CloseAmong(c, s, i, j)'
    BY <2>4
  <2>6. QED
    BY <2>3, <2>5 DEF Own, CloseAmong
<1>5. ASSUME NEW d \in Targets \ {c}, NEW j \in DOMAIN outbox'[d], NEW s \in Sources,
             outbox'[d][j] = CloseOf(s)
      PROVE  Own(d, j, s)'
  <2>1. outbox'[d] = outbox[d]
    BY Delivered
  <2>2. Own(d, j, s)
    BY <1>5, <2>1 DEF Ordered
  <2>3. stranded \subseteq stranded' /\ \A x \in cornix' : x[1] = d => x \in cornix
    BY <1>5, Delivered
  <2>4. QED
    BY <2>1, <2>2, <2>3 DEF Own, CloseAmong
<1>6. QED
  BY <1>4, <1>5 DEF Ordered

LEMMA PollCloses ==
    ASSUME OneBot, JInv, NEW b \in Bots, NEW s \in Sources, Poll(b, s), NEW c \in Targets
    PROVE  /\ cornix' = cornix /\ stranded' = stranded
           /\ \/ outbox'[c] = outbox[c]
              \/ \E m \in Commands : /\ outbox'[c] = Append(outbox[c], m)
                                     /\ m.command = "close" => table[m.source].state = "open"
<1>1. TypeOK /\ Judging
  BY DEF JInv
<1>2. table[s].state = "open"
  BY <1>1, PollFrame
<1>3. cornix' = cornix /\ stranded' = stranded
  BY DEF Poll, FollowSource, SkipUnpriced, BookStop, AwaitFill, TrailClose, TimeStop, Hold, Polling
<1>4. \/ outbox' = outbox
      \/ outbox' = [outbox EXCEPT ![RowChannel(mine[b][s])] = Append(@, CloseOf(s))]
  BY DEF Poll, FollowSource, SkipUnpriced, BookStop, AwaitFill, TrailClose, TimeStop, Hold,
         CloseMirror, CloseOf
<1>5. outbox'[c] = outbox[c] \/ outbox'[c] = Append(outbox[c], CloseOf(s))
  BY <1>1, <1>4 DEF TypeOK
<1>6. CloseOf(s) \in Commands /\ CloseOf(s).source = s
  BY DEF CloseOf, Commands
<1>7. QED
  BY <1>2, <1>3, <1>5, <1>6

LEMMA MirrorPosts ==
    ASSUME TypeOK, NEW b \in Bots, NEW s \in Sources, Mirror(b, s), NEW c \in Targets
    PROVE  /\ cornix' = cornix /\ stranded' = stranded
           /\ \/ outbox'[c] = outbox[c]
              \/ \E m \in Commands : /\ outbox'[c] = Append(outbox[c], m)
                                     /\ m.command = "close" => table[m.source].state = "open"
<1>1. cornix' = cornix /\ stranded' = stranded
  BY DEF Mirror, Considering
<1>2. outbox' = outbox \/ outbox' = [outbox EXCEPT ![Emptiest(adm[b].load)] = Append(@, EntryOf(s))]
  BY DEF Mirror, EntryOf
<1>3. outbox'[c] = outbox[c] \/ outbox'[c] = Append(outbox[c], EntryOf(s))
  BY <1>2 DEF TypeOK
<1>4. EntryOf(s) \in Commands /\ EntryOf(s).command # "close"
  BY DEF EntryOf, Commands
<1>5. QED
  BY <1>1, <1>3, <1>4

(* Every step is a delivery, or leaves the trades and appends.             *)
LEMMA StepQueues ==
    ASSUME OneBot, JInv, [Next]_vars
    PROVE  \/ \E c \in Targets : Deliver(c) \/ Lose(c)
           \/ /\ cornix' = cornix \/ outbox' = outbox
              /\ cornix' \subseteq cornix /\ stranded' = stranded
              /\ \A c \in Targets :
                    \/ outbox'[c] = outbox[c]
                    \/ \E m \in Commands : /\ outbox'[c] = Append(outbox[c], m)
                                           /\ m.command = "close" => table[m.source].state = "open"
<1>1. CASE outbox' = outbox /\ cornix' \subseteq cornix /\ stranded' = stranded
  BY <1>1
<1>2. ASSUME NEW b \in Bots, NEW s \in Sources, Poll(b, s) \/ Mirror(b, s)
      PROVE  /\ cornix' = cornix /\ stranded' = stranded
             /\ \A c \in Targets :
                   \/ outbox'[c] = outbox[c]
                   \/ \E m \in Commands : /\ outbox'[c] = Append(outbox[c], m)
                                          /\ m.command = "close" => table[m.source].state = "open"
  <2>1. Targets # {}
    BY ChannelFacts
  <2>2. CASE Poll(b, s)
    BY <2>1, <2>2, PollCloses
  <2>3. CASE Mirror(b, s)
    BY <2>1, <2>3, MirrorPosts DEF JInv
  <2>4. QED
    BY <1>2, <2>2, <2>3
<1>3. CASE UNCHANGED vars
  BY <1>1, <1>3 DEF vars
<1>4. CASE Fleet
  BY <1>1, <1>4 DEF Fleet, Forward, Toggle, SourceCloses, SourceAges, RowAges, CornixExits
<1>5. ASSUME NEW b \in Bots,
             \/ Start(b) \/ ReadSources(b) \/ ReadMirrors(b) \/ Survey(b) \/ Fail(b) \/ Die(b)
             \/ \E s \in Sources : Refuse(b, s) \/ PassOver(b, s)
      PROVE  outbox' = outbox /\ cornix' \subseteq cornix /\ stranded' = stranded
  BY <1>5 DEF Start, ReadSources, ReadMirrors, Survey, Fail, Die, Refuse, PassOver, Considering
<1>6. QED
  BY <1>1, <1>2, <1>3, <1>4, <1>5 DEF Next, Cycle, Open

LEMMA StepOrdered ==
    ASSUME OneBot, JInv, OInv, Trades, Ordered, [Next]_vars
    PROVE  Ordered'
<1>1. TypeOK /\ NoTradeForgotten /\ OnePerSymbol
  BY DEF OInv, Trades
<1>2. ASSUME NEW c \in Targets, Deliver(c) \/ Lose(c) PROVE Ordered'
  BY <1>1, <1>2, OwnDelivered
<1>3. ASSUME cornix' \subseteq cornix, stranded' = stranded,
             \A c \in Targets :
                \/ outbox'[c] = outbox[c]
                \/ \E m \in Commands : /\ outbox'[c] = Append(outbox[c], m)
                                       /\ m.command = "close" => table[m.source].state = "open"
      PROVE  Ordered'
  <2>1. ASSUME NEW c \in Targets, NEW j \in DOMAIN outbox'[c], NEW s \in Sources,
               outbox'[c][j] = CloseOf(s)
        PROVE  Own(c, j, s)'
    BY <1>1, <1>3, <2>1, OwnAppended
  <2>2. QED
    BY <2>1 DEF Ordered
<1>4. QED
  BY <1>2, <1>3, StepQueues

LEMMA InductiveOrdered ==
    ASSUME OneBot, ~MayGoDark, PromptEntries
    PROVE  Spec => []Ordered
<1>1. Init => Ordered
  <2>1. ASSUME NEW cast \in Casts, NEW live \in StartModes, InitFleet(cast.sources, live)
        PROVE  \A c \in Targets : DOMAIN outbox[c] = {}
    BY <2>1 DEF InitFleet
  <2>2. QED
    BY <2>1 DEF Init, Ordered
<1>2. JInv /\ OInv /\ Trades /\ Ordered /\ [Next]_vars => Ordered'
  BY StepOrdered
<1>3. QED
  BY <1>1, <1>2, InductivePeaks, InductiveOnce, InductiveTrades, PTL DEF Spec

LEMMA StepHits ==
    ASSUME OneBot, JInv, Ordered, [Next]_vars, NEW c \in Targets, outbox[c] # << >>,
           outbox'[c] = Tail(outbox[c]), Head(outbox[c]).command = "close"
    PROVE  cornix \ cornix' \subseteq {<<c, Head(outbox[c]).source>>} \cup stranded
<1>1. TypeOK /\ outbox[c] \in Seq(Commands)
  BY DEF JInv, TypeOK
<1>2. Head(outbox[c]) = outbox[c][1] /\ 1 \in DOMAIN outbox[c] /\ outbox[c][1] \in Commands
      /\ Tail(outbox[c]) # outbox[c] /\ DOMAIN outbox[c] = 1 .. Len(outbox[c]) /\ Len(outbox[c]) \in Nat
  <2>1. Head(outbox[c]) = outbox[c][1] /\ Head(outbox[c]) \in Commands
        /\ Len(outbox[c]) \in Nat /\ Len(outbox[c]) >= 1 /\ DOMAIN outbox[c] = 1 .. Len(outbox[c])
        /\ DOMAIN Tail(outbox[c]) = 1 .. Len(outbox[c]) - 1
    BY <1>1, TailFacts
  <2>2. Len(outbox[c]) \in DOMAIN outbox[c] /\ Len(outbox[c]) \notin DOMAIN Tail(outbox[c])
    BY <2>1
  <2>3. Tail(outbox[c]) # outbox[c]
    BY <2>2
  <2>4. 1 \in DOMAIN outbox[c]
    BY <2>1
  <2>5. QED
    BY <2>1, <2>3, <2>4
<1>3. CASE Deliver(c) \/ Lose(c)
  <2> DEFINE s == outbox[c][1].source
  <2>1. s \in Sources /\ outbox[c][1] = CloseOf(s)
    BY <1>2 DEF Commands, CloseOf
  <2>2. Own(c, 1, s)
    BY <1>2, <2>1 DEF Ordered
  <2>3. ~CloseAmong(c, s, 0, 1)
    BY <1>2 DEF CloseAmong
  <2>4. ASSUME NEW x \in cornix \ stranded, x \notin cornix' PROVE x = <<c, s>>
    <3>1. x[1] = c /\ SymbolOf[x[2]] = SymbolOf[s]
      BY <1>1, <1>2, <1>3, <2>4, Delivered
    <3>2. x[2] = s
      BY <2>2, <2>3, <2>4, <3>1 DEF Own
    <3>3. x \in Targets \X Sources
      BY <1>1, <2>4 DEF TypeOK
    <3> HIDE DEF s
    <3>4. QED
      BY <3>1, <3>2, <3>3
  <2>5. QED
    BY <1>2, <2>4
<1>4. ASSUME NEW d \in Targets, Deliver(d) \/ Lose(d), d # c PROVE FALSE
  BY <1>1, <1>2, <1>4, Delivered
<1>5. CASE cornix' = cornix \/ outbox' = outbox
  BY <1>2, <1>5
<1>6. QED
  BY <1>3, <1>4, <1>5, StepQueues

(* "Close" is applied by Cornix to the symbol, and yet ends only the trade *)
(* it was posted for and trades whose own Close was lost (close_mirror),   *)
(* under the assumptions of NoneLeft.                                      *)
THEOREM CloseEndsOwn ==
    ASSUME OneBot, ~MayGoDark, PromptEntries
    PROVE  Spec => CloseHitsOwn
<1>1. JInv /\ Ordered /\ [Next]_vars =>
        [\A c \in Targets :
            outbox[c] # << >> /\ outbox'[c] = Tail(outbox[c]) /\ Head(outbox[c]).command = "close"
                => cornix \ cornix' \subseteq {<<c, Head(outbox[c]).source>>} \cup stranded]_vars
  BY StepHits
<1>2. QED
  BY <1>1, InductivePeaks, InductiveOrdered, PTL DEF Spec, CloseHitsOwn
=============================================================================
