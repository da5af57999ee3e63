--------------------------- MODULE PlayoutProofs ---------------------------
(***************************************************************************)
(* What the two programs that play on without an OBS guarantee.            *)
(*                                                                         *)
(* The player box, for every length of an event, every depth of its queues *)
(* and every number of controls and broken decoders: Stop leaves nothing   *)
(* queued, and a decoder is fed without holes.                             *)
(*                                                                         *)
(* The relay, for every number of destinations, callers, segments and      *)
(* mishaps: no stream runs behind the state of its machine, and no session *)
(* outlives the feeder it reads from.                                      *)
(***************************************************************************)
EXTENDS AppliancePlayer, Relay, TLAPS

SeatFields    == {"head", "seated", "play", "initSent", "event", "pin"}
DecoderFields == {"on", "frags", "fed"}
Lines         == Nat \X Nat
Fragments     == [seq : Int, line : Lines]

\* A timeline there is or was.
Past(l) == l[1] \in 1..Len(counts) /\ l[2] <= counts[l[1]]

Shapes ==
    /\ counts \in Seq(Nat) /\ Len(counts) > 0
    /\ DOMAIN seat = SeatFields /\ seat.head \in Int
    /\ DOMAIN decoder = DecoderFields
    /\ decoder.fed \subseteq Fragments /\ (~decoder.on => decoder.fed = {})
    /\ feedAt \in {"top", "got", "have", "made", "wait", "push"}
    /\ inHand \in [seq : Int, line : Lines, init : BOOLEAN]
    /\ Past(inHand.line) /\ \A p \in decoder.fed : Past(p.line)

\* What was fed of the present timeline is behind the playhead, and what is in
\* hand comes between the two.
Ordered ==
    /\ \A p \in decoder.fed : p.line = Line => p.seq < seat.head
    /\ feedAt = "made" => decoder.fed = {}
    /\ feedAt # "top" =>
          /\ inHand.line = Line => seat.head = inHand.seq + 1
          /\ \A p \in decoder.fed : p.line = Line => inHand.line = Line
          /\ \A p \in decoder.fed : p.line = inHand.line => p.seq < inHand.seq
    /\ feedAt \in {"wait", "push"} /\ inHand.line = Line => feeding = counts[Len(counts)]

Fed(s, l) == [seq |-> s, line |-> l] \in decoder.fed
OfLine(l) == \E p \in decoder.fed : p.line = l

\* The fragment before the next one of its timeline was fed, if any was.
\* A decoder that no longer counts as started is fed nothing more, save what the
\* feed thread is already pushing.
Adjacent ==
    /\ feedAt = "top" /\ started /\ OfLine(Line) => Fed(seat.head - 1, Line)
    /\ feedAt \in {"got", "have"} /\ started /\ OfLine(inHand.line) =>
           Fed(inHand.seq - 1, inHand.line)
    /\ feedAt \in {"wait", "push"} /\ OfLine(inHand.line) =>
           Fed(inHand.seq - 1, inHand.line)

FeedInv == Shapes /\ Ordered /\ Adjacent /\ NoHoleInADecoder

\* Off air only the flush of Stop itself is left with pictures to throw away.
Emptied ==
    /\ DOMAIN at = Actors
    /\ ~onAir /\ at["op"] # "flush" => dq = <<>>
-----------------------------------------------------------------------------
LEMMA PlayerCases ==
    [PlayerNext]_playerVars =>
        \/ DecoderEmits \/ (\E a \in Actors : LeavingEmits(a))
        \/ FeedStarts \/ FeedPulls \/ FeedMindsJumps \/ FeedLacksInit \/ FeedMakesDecoder
        \/ FeedReady \/ FeedWaits \/ FeedPushes \/ FeedFails \/ FeedFindsItStopped
        \/ DeliverDiscards \/ DeliverTakes \/ DeliverShows
        \/ (\E a \in Actors : TearAsks(a)) \/ (\E a \in Actors : TearTakes(a))
        \/ (\E a \in Actors : TearJoins(a)) \/ (\E a \in Actors : FlushClears(a))
        \/ (\E a \in Actors : FlushEnds(a))
        \/ PressPlay \/ PressStop \/ PressHold \/ PressContinue \/ PressLive \/ PressReceive
        \/ (\E s \in Segments : PressSeek(s)) \/ (\E event \in 0..2 : PressPin(event))
        \/ StopEnds \/ ContinueEnds \/ SeekEnds \/ PinEnds \/ ReceiveEnds
        \/ CredentialsCome \/ PollRebuilds \/ PollRebuilt \/ PollMoves
        \/ UNCHANGED playerVars
<1>1. "op" \in Actors /\ "poll" \in Actors
    BY DEF Actors
<1> QED BY Zenon, <1>1 DEF PlayerNext, FeedStep, DeliveryStep, OperatorPresses, OperatorStep,
           PollStep, DecoderStep, Handles

\* What a step may do to the playhead, the decoder and the feed thread: nothing, ...
Same ==
    /\ counts' = counts /\ DOMAIN seat' = SeatFields /\ seat'.head = seat.head
    /\ DOMAIN decoder' = DecoderFields /\ decoder'.fed = decoder.fed /\ decoder'.on = decoder.on
    /\ UNCHANGED <<feedAt, inHand, feeding, started>>

\* ... or begin a timeline that there has not been.
Jumped ==
    /\ counts' \in Seq(Nat) /\ Len(counts') >= Len(counts)
    /\ \A k \in 1..Len(counts) : counts'[k] >= counts[k]
    /\ \A l \in Lines : Past(l) => l # Line'
    /\ DOMAIN seat' = SeatFields /\ seat'.head \in Int
    /\ UNCHANGED <<decoder, feedAt, inHand, feeding, started>>

LEMMA SameKeeps == ASSUME FeedInv, Same PROVE FeedInv'
<1>1. Shapes'
    BY DEF FeedInv, Shapes, Same, Past
<1>2. Ordered'
    BY DEF FeedInv, Ordered, Same, Line
<1>3. Adjacent'
    BY DEF FeedInv, Adjacent, Same, Line, OfLine, Fed
<1>4. NoHoleInADecoder'
    BY DEF FeedInv, NoHoleInADecoder, Same
<1> QED BY <1>1, <1>2, <1>3, <1>4 DEF FeedInv

\* A count is a number, whichever timeline it is of.
LEMMA CountsAreNumbers == \A c \in Seq(Nat) : \A i \in 1..Len(c) : c[i] \in Nat
OBVIOUS

LEMMA JumpedKeeps == ASSUME FeedInv, Jumped PROVE FeedInv'
<1>0. Shapes /\ Ordered /\ Adjacent
    BY DEF FeedInv
<1>1. Shapes'
  <2>1. ASSUME NEW l \in Lines, Past(l) PROVE Past(l)'
    <3>1. l[1] \in 1..Len(counts) /\ l[2] \in Nat /\ l[2] <= counts[l[1]]
      BY <2>1 DEF Past, Lines
    <3>2. Len(counts) \in Nat /\ Len(counts') \in Nat /\ Len(counts') >= Len(counts)
      BY <1>0 DEF Jumped, Shapes
    <3>3. counts'[l[1]] >= counts[l[1]] /\ l[1] \in 1..Len(counts')
      BY <3>1, <3>2 DEF Jumped
    <3>4. counts \in Seq(Nat) /\ counts' \in Seq(Nat)
      BY <1>0 DEF Jumped, Shapes
    <3>5. counts[l[1]] \in Nat /\ counts'[l[1]] \in Nat
      BY Zenon, <3>1, <3>3, <3>4, CountsAreNumbers
    <3> QED BY <3>1, <3>3, <3>5 DEF Past
  <2>2. inHand.line \in Lines /\ \A p \in decoder.fed : p.line \in Lines
    BY <1>0 DEF Shapes, Fragments
  <2>3. Past(inHand.line)' /\ \A p \in decoder.fed : Past(p.line)'
    BY <1>0, <2>1, <2>2 DEF Shapes, Jumped
  <2>4. Len(counts') > 0
    BY <1>0 DEF Jumped, Shapes
  <2> QED BY <1>0, <2>3, <2>4 DEF Jumped, Shapes
<1>2. inHand.line # Line' /\ \A p \in decoder.fed : p.line # Line'
    BY <1>0 DEF Shapes, Jumped, Fragments
<1>3. Ordered'
    BY <1>0, <1>2 DEF Ordered, Jumped
<1>4. Adjacent'
    BY <1>0, <1>2 DEF Adjacent, Jumped, OfLine, Fed
<1>5. NoHoleInADecoder'
    BY DEF FeedInv, NoHoleInADecoder, Jumped
<1> QED BY <1>1, <1>3, <1>4, <1>5 DEF FeedInv

\* One more jump counted by the newest session.
LEMMA CountJumps ==
    ASSUME counts \in Seq(Nat), Len(counts) > 0,
           counts' = [counts EXCEPT ![Len(counts)] = @ + 1]
    PROVE  /\ counts' \in Seq(Nat) /\ Len(counts') = Len(counts)
           /\ \A k \in 1..Len(counts) : counts'[k] >= counts[k]
           /\ \A l \in Lines : Past(l) => l # Line'
<1>1. Len(counts) \in 1..Len(counts) /\ counts[Len(counts)] \in Nat
    OBVIOUS
<1>2. counts' \in Seq(Nat) /\ Len(counts') = Len(counts)
    BY <1>1
<1>3. \A k \in 1..Len(counts) : counts[k] \in Nat
    OBVIOUS
<1>4. \A k \in 1..Len(counts) : counts'[k] = IF k = Len(counts) THEN counts[k] + 1 ELSE counts[k]
    BY <1>1
<1>5. \A k \in 1..Len(counts) : counts'[k] >= counts[k]
    BY <1>3, <1>4
<1>6. ASSUME NEW l \in Lines, Past(l) PROVE l # Line'
  <2>1. Line' = <<Len(counts), counts[Len(counts)] + 1>>
    BY Zenon, <1>1, <1>2, <1>4 DEF Line
  <2>2. CASE l[1] = Len(counts)
    <3>1. l[2] <= counts[Len(counts)] /\ l[2] \in Nat
      BY <1>6, <2>2 DEF Past, Lines
    <3> QED BY <1>1, <2>1, <3>1
  <2>3. CASE l[1] # Len(counts)
    BY <2>1, <2>3
  <2> QED BY SMTT(60), <2>2, <2>3
<1> QED BY Zenon, <1>2, <1>5, <1>6

\* Another session.
LEMMA NewSession ==
    ASSUME counts \in Seq(Nat), Len(counts) > 0, counts' = Append(counts, 0)
    PROVE  /\ counts' \in Seq(Nat) /\ Len(counts') = Len(counts) + 1
           /\ \A k \in 1..Len(counts) : counts'[k] >= counts[k]
           /\ \A l \in Lines : Past(l) => l # Line'
<1>1. counts' \in Seq(Nat) /\ Len(counts') = Len(counts) + 1
    OBVIOUS
<1>2. \A k \in 1..Len(counts) : counts'[k] = counts[k] /\ counts[k] \in Nat
    OBVIOUS
<1>3. ASSUME NEW l \in Lines, Past(l) PROVE l # Line'
  <2>1. l[1] \in 1..Len(counts)
    BY <1>3 DEF Past
  <2>2. Line' = <<Len(counts) + 1, counts'[Len(counts')]>>
    BY <1>1 DEF Line
  <2> QED BY <2>1, <2>2
<1> QED BY <1>1, <1>2, <1>3

LEMMA SeatFacts ==
    /\ \A e, p : DOMAIN FreshSeat(e, p) = SeatFields /\ FreshSeat(e, p).head = 0
    /\ DOMAIN NoDecoder = DecoderFields /\ NoDecoder.fed = {} /\ NoDecoder.on = FALSE
BY DEF FreshSeat, SeatFields, NoDecoder, DecoderFields

LEMMA JumpsToKeeps ==
    ASSUME FeedInv, NEW s \in Int, NEW play, JumpsTo(s, play),
           UNCHANGED <<decoder, feedAt, inHand, feeding, started>>
    PROVE  FeedInv'
<1>0. Shapes
    BY DEF FeedInv
<1>1. DOMAIN seat' = SeatFields /\ seat'.head = s
    BY <1>0 DEF JumpsTo, Shapes, SeatFields
<1>2. CASE seat.seated /\ seat.head = s
  <2>1. Same
    BY <1>0, <1>1, <1>2 DEF JumpsTo, Same, Shapes
  <2> QED BY <2>1, SameKeeps
<1>3. CASE ~(seat.seated /\ seat.head = s)
  <2>1. counts' = [counts EXCEPT ![Len(counts)] = @ + 1]
    BY <1>3 DEF JumpsTo
  <2>2. counts \in Seq(Nat) /\ Len(counts) > 0 /\ Len(counts) \in Nat
    BY SMTT(60), <1>0 DEF Shapes
  <2>3. /\ counts' \in Seq(Nat) /\ Len(counts') = Len(counts)
        /\ \A k \in 1..Len(counts) : counts'[k] >= counts[k]
        /\ \A l \in Lines : Past(l) => l # Line'
    BY Zenon, <2>1, <2>2, CountJumps
  <2>4. Jumped
    BY <1>1, <2>2, <2>3 DEF Jumped
  <2> QED BY <2>4, JumpedKeeps
<1> QED BY <1>2, <1>3

LEMMA RebuildsKeeps ==
    ASSUME FeedInv, Rebuilds, UNCHANGED <<decoder, feedAt, inHand, feeding, started>>
    PROVE  FeedInv'
<1>1. Jumped
    BY NewSession, SeatFacts DEF FeedInv, Shapes, Rebuilds, Jumped
<1> QED BY <1>1, JumpedKeeps

\* A decoder torn down or taken leaves nothing to keep to.
LEMMA WithoutDecoder ==
    ASSUME FeedInv, counts' = counts, DOMAIN seat' = SeatFields, seat'.head = seat.head,
           decoder' = NoDecoder, UNCHANGED <<inHand, feeding>>,
           \/ feedAt' = feedAt
           \/ feedAt' = "top"
           \/ feedAt = "got" /\ feedAt' = "have"
    PROVE  FeedInv'
<1>0. Shapes /\ Ordered
    BY DEF FeedInv
<1>1. decoder'.fed = {} /\ DOMAIN decoder' = DecoderFields
    BY SeatFacts
<1>2. Shapes'
    BY <1>0, <1>1 DEF Shapes, Past
<1>3. Ordered'
    BY <1>0, <1>1 DEF Ordered, Line
<1>4. Adjacent' /\ NoHoleInADecoder'
    BY <1>1 DEF Adjacent, OfLine, NoHoleInADecoder
<1> QED BY <1>2, <1>3, <1>4 DEF FeedInv

\* The feed thread goes on without having pushed anything.
LEMMA NoPush ==
    ASSUME FeedInv, counts' = counts, DOMAIN seat' = SeatFields, seat'.head = seat.head,
           UNCHANGED <<decoder, inHand>>,
           feedAt' \in {"top", "got", "have", "wait", "push"}
    PROVE  Shapes' /\ NoHoleInADecoder'
<1>1. Shapes'
    BY DEF FeedInv, Shapes, Past
<1>2. NoHoleInADecoder'
    BY DEF FeedInv, NoHoleInADecoder
<1> QED BY Zenon, <1>1, <1>2

LEMMA PullKeeps == ASSUME FeedInv, FeedPulls PROVE FeedInv'
<1>0. Shapes /\ Ordered /\ Adjacent
    BY DEF FeedInv
<1>1. /\ feedAt = "top" /\ feedAt' = "got"
      /\ inHand' = [seq |-> seat.head, line |-> Line, init |-> ~seat.initSent]
      /\ seat' = [seat EXCEPT !.head = @ + 1, !.initSent = TRUE]
      /\ UNCHANGED <<counts, decoder, started, feeding>>
    BY DEF FeedPulls
<1>2. seat.head \in Int /\ DOMAIN seat' = SeatFields /\ seat'.head = seat.head + 1
    BY <1>0, <1>1 DEF Shapes, SeatFields
<1>3. Line' = Line /\ Line \in Lines /\ Past(Line)
  <2>1. counts \in Seq(Nat) /\ Len(counts) > 0
    BY <1>0 DEF Shapes
  <2>2. Len(counts) \in Nat /\ Len(counts) \in 1..Len(counts) /\ counts[Len(counts)] \in Nat
    BY <2>1
  <2> QED BY <1>1, <2>2 DEF Line, Lines, Past
<1>4. inHand'.seq = seat.head /\ inHand'.line = Line
    BY <1>1
<1>5. inHand' \in [seq : Int, line : Lines, init : BOOLEAN]
  <2>1. (~seat.initSent) \in BOOLEAN
    OBVIOUS
  <2> QED BY <1>1, <1>2, <1>3, <2>1
<1>6. Shapes'
    BY <1>0, <1>1, <1>2, <1>3, <1>4, <1>5 DEF Shapes, Past
<1>7. Ordered'
  <2>1. \A p \in decoder.fed : p.line = Line => p.seq < seat.head
    BY <1>0 DEF Ordered
  <2>2. \A p \in decoder.fed : p.seq \in Int
    BY <1>0 DEF Shapes, Fragments
  <2> QED BY <1>1, <1>2, <1>3, <1>4, <2>1, <2>2 DEF Ordered
<1>8. Adjacent'
    BY <1>0, <1>1, <1>3, <1>4 DEF Adjacent, OfLine, Fed
<1>9. NoHoleInADecoder'
    BY <1>1 DEF FeedInv, NoHoleInADecoder
<1> QED BY <1>6, <1>7, <1>8, <1>9 DEF FeedInv

LEMMA MindKeeps == ASSUME FeedInv, FeedMindsJumps PROVE FeedInv'
<1>0. Shapes /\ Ordered /\ Adjacent
    BY DEF FeedInv
<1>1. feedAt = "got" /\ feedAt' = "have" /\ UNCHANGED <<counts, inHand, feeding>>
    BY DEF FeedMindsJumps
<1>2. CASE FeedTearsDown
  <2>1. DOMAIN seat' = SeatFields /\ seat'.head = seat.head /\ decoder' = NoDecoder
    BY <1>0, <1>2 DEF FeedTearsDown, Shapes, SeatFields
  <2> QED BY <1>1, <2>1, WithoutDecoder
<1>3. CASE UNCHANGED <<seat, decoder, started>>
  <2>1. Shapes' /\ NoHoleInADecoder'
    BY Zenon, <1>0, <1>1, <1>3, NoPush DEF Shapes
  <2>2. Ordered'
    BY Zenon, <1>0, <1>1, <1>3 DEF Ordered, Line
  <2>3. Adjacent'
    BY Zenon, <1>0, <1>1, <1>3 DEF Adjacent, Line, OfLine, Fed
  <2> QED BY Zenon, <2>1, <2>2, <2>3 DEF FeedInv
<1> QED BY <1>2, <1>3 DEF FeedMindsJumps

LEMMA LacksKeeps == ASSUME FeedInv, FeedLacksInit PROVE FeedInv'
<1>0. Shapes /\ Ordered /\ Adjacent
    BY DEF FeedInv
<1>1. /\ feedAt = "have" /\ feedAt' = "top" /\ ~started
      /\ UNCHANGED <<seat, counts, decoder, started, inHand, feeding>>
    BY Zenon DEF FeedLacksInit, seatOf
<1>2. Shapes' /\ NoHoleInADecoder'
    BY Zenon, <1>0, <1>1, NoPush DEF Shapes
<1>3. Ordered'
    BY <1>0, <1>1 DEF Ordered, Line
<1>4. Adjacent'
    BY <1>1 DEF Adjacent
<1> QED BY <1>2, <1>3, <1>4 DEF FeedInv

LEMMA MakeKeeps == ASSUME FeedInv, FeedMakesDecoder PROVE FeedInv'
<1>0. Shapes /\ Ordered
    BY DEF FeedInv
<1>1. /\ feedAt = "have" /\ feedAt' = "made" /\ decoder' = [NoDecoder EXCEPT !.on = TRUE]
      /\ UNCHANGED <<seat, counts, inHand, feeding>>
    BY DEF FeedMakesDecoder, seatOf
<1>2. DOMAIN decoder' = DecoderFields /\ decoder'.fed = {}
    BY <1>1 DEF NoDecoder, DecoderFields
<1>3. Shapes'
    BY <1>0, <1>1, <1>2 DEF Shapes, Past
<1>4. Ordered'
    BY <1>0, <1>1, <1>2 DEF Ordered, Line
<1>5. Adjacent' /\ NoHoleInADecoder'
    BY <1>2 DEF Adjacent, OfLine, NoHoleInADecoder
<1> QED BY <1>3, <1>4, <1>5 DEF FeedInv

LEMMA ReadyKeeps == ASSUME FeedInv, FeedReady PROVE FeedInv'
<1>0. Shapes /\ Ordered /\ Adjacent
    BY DEF FeedInv
<1>1. /\ feedAt = "made" \/ (feedAt = "have" /\ started)
      /\ feedAt' = "wait" /\ feeding' = JumpsOf(inHand)
      /\ UNCHANGED <<seat, counts, decoder, inHand>>
    BY DEF FeedReady, seatOf
<1>2. Shapes' /\ NoHoleInADecoder'
    BY <1>0, <1>1, NoPush DEF Shapes
<1>3. inHand.line = Line => feeding' = counts[Len(counts)]
    BY <1>1 DEF JumpsOf, Line
<1>4. Ordered'
    BY ZenonT(60), <1>0, <1>1, <1>3 DEF Ordered, Line
<1>5. Adjacent'
    BY <1>0, <1>1 DEF Adjacent, Ordered, OfLine, Fed
<1> QED BY <1>2, <1>4, <1>5 DEF FeedInv

LEMMA WaitKeeps == ASSUME FeedInv, FeedWaits PROVE FeedInv'
<1>0. Shapes /\ Ordered /\ Adjacent
    BY DEF FeedInv
<1>1. /\ feedAt = "wait" /\ feedAt' \in {"top", "push"}
      /\ feedAt' = "top" => ~started \/ JumpsOf(inHand) # feeding
      /\ UNCHANGED <<seat, counts, decoder, started, inHand, feeding>>
    BY Zenon DEF FeedWaits, seatOf
<1>2. Shapes' /\ NoHoleInADecoder'
    BY Zenon, <1>0, <1>1, NoPush DEF Shapes
<1>3. Ordered'
    BY Zenon, <1>0, <1>1 DEF Ordered, Line
<1>4. CASE feedAt' = "top"
  <2>1. started => inHand.line # Line
    BY <1>0, <1>1, <1>4 DEF Ordered, JumpsOf, Line
  <2>2. started => ~OfLine(Line)
    BY Zenon, <1>0, <1>1, <2>1 DEF Ordered, OfLine
  <2>3. Adjacent'
    BY ZenonT(60), <1>1, <1>4, <2>2 DEF Adjacent, OfLine, Line
  <2> QED BY <1>2, <1>3, <2>3 DEF FeedInv
<1>5. CASE feedAt' = "push"
  <2>1. Adjacent'
    BY <1>0, <1>1, <1>5 DEF Adjacent, OfLine, Fed
  <2> QED BY <1>2, <1>3, <2>1 DEF FeedInv
<1> QED BY <1>1, <1>4, <1>5

\* The fragment in hand is the next of its timeline, or the first.
LEMMA PushKeeps == ASSUME FeedInv, FeedPushes PROVE FeedInv'
<1>0. Shapes /\ Ordered /\ Adjacent /\ NoHoleInADecoder
    BY DEF FeedInv
<1>1. feedAt = "push" /\ feedAt' = "top" /\ UNCHANGED <<seat, counts, started, inHand, feeding>>
    BY DEF FeedPushes, seatOf
<1>2. CASE ~decoder.on /\ UNCHANGED decoder
  <2>1. decoder.fed = {}
    BY Zenon, <1>0, <1>2 DEF Shapes
  <2>2. Shapes' /\ NoHoleInADecoder'
    BY Zenon, <1>0, <1>1, <1>2, NoPush DEF Shapes
  <2>3. Ordered' /\ Adjacent'
    BY <1>1, <1>2, <2>1 DEF Ordered, Adjacent, OfLine
  <2> QED BY <2>2, <2>3 DEF FeedInv
<1>3. CASE ~(~decoder.on /\ UNCHANGED decoder)
  <2> DEFINE q == [seq |-> inHand.seq, line |-> inHand.line]
             s == inHand.seq
             l == inHand.line
  <2>1. decoder.on /\ decoder' = [decoder EXCEPT !.frags = Append(@, q), !.fed = @ \cup {q}]
    BY <1>3 DEF FeedPushes
  <2>2. decoder'.fed = decoder.fed \cup {q} /\ DOMAIN decoder' = DecoderFields
        /\ decoder'.on = decoder.on
    BY Zenon, <1>0, <2>1 DEF Shapes, DecoderFields
  <2>3. q \in Fragments /\ q.seq = s /\ q.line = l /\ s \in Int /\ Past(l) /\ seat.head \in Int
    BY <1>0 DEF Shapes, Fragments
  <2>4. \A p \in decoder.fed : p \in Fragments /\ p.seq \in Int
                                /\ p = [seq |-> p.seq, line |-> p.line]
    BY <1>0 DEF Shapes, Fragments
  <2>5. \A p \in decoder.fed : p.line = l => p.seq < s
    BY Zenon, <1>0, <1>1 DEF Ordered
  <2>6. \A p \in decoder.fed : p.line = l => [seq |-> s - 1, line |-> l] \in decoder.fed
    BY Zenon, <1>0, <1>1 DEF Adjacent, OfLine, Fed
  <2>7. l = Line => seat.head = s + 1
    BY Zenon, <1>0, <1>1 DEF Ordered
  <2>8. \A p \in decoder.fed : p.line = Line => l = Line
    BY <1>0, <1>1 DEF Ordered
  <2>9. Shapes'
    BY <1>0, <1>1, <2>1, <2>2, <2>3 DEF Shapes, Past
  <2>10. Line' = Line /\ seat' = seat
    BY Zenon, <1>1 DEF Line
  <2> HIDE DEF q
  <2>11. Ordered'
    <3>1. \A p \in decoder'.fed : p.line = Line => p.seq < seat.head
      BY <2>2, <2>3, <2>4, <2>5, <2>7, <2>8
    <3> QED BY Zenon, <1>1, <2>10, <3>1 DEF Ordered
  <2>12. Adjacent'
    <3>1. OfLine(Line)' => [seq |-> seat.head - 1, line |-> Line] \in decoder'.fed
      <4>1. SUFFICES ASSUME OfLine(Line)' PROVE [seq |-> seat.head - 1, line |-> Line] \in decoder'.fed
        OBVIOUS
      <4>2. l = Line
        BY Zenon, <2>2, <2>3, <2>8, <2>10, <4>1 DEF OfLine
      <4>3. seat.head - 1 = s
        BY <2>3, <2>7, <4>2
      <4>4. q = [seq |-> seat.head - 1, line |-> Line]
        BY Zenon, <4>2, <4>3 DEF q
      <4> QED BY <2>2, <4>4
    <3> QED BY Zenon, <1>1, <2>10, <3>1 DEF Adjacent, Fed
  <2>13. NoHoleInADecoder'
    <3>1. SUFFICES ASSUME NEW p \in decoder'.fed, NEW r \in decoder'.fed,
                          p.line = r.line, p.seq < r.seq, NEW k \in p.seq..r.seq
                   PROVE  [seq |-> k, line |-> p.line] \in decoder'.fed
      BY Zenon DEF NoHoleInADecoder
    <3>2. CASE r \in decoder.fed /\ p \in decoder.fed
      BY Zenon, <1>0, <2>2, <3>1, <3>2 DEF NoHoleInADecoder
    <3>3. CASE p = q /\ r # q
      <4>1. r \in decoder.fed
        BY Zenon, <2>2, <3>3
      <4>2. r.seq < s
        BY Zenon, <2>3, <2>5, <3>1, <3>3, <4>1
      <4> QED BY <2>3, <2>4, <3>1, <3>3, <4>1, <4>2
    <3>4. CASE p = q /\ r = q
      BY <2>3, <3>1, <3>4
    <3>5. CASE p # q /\ r = q
      <4> DEFINE z == [seq |-> s - 1, line |-> l]
      <4>1. p \in decoder.fed /\ p.line = l /\ p.seq < s /\ p.seq \in Int
        BY Zenon, <2>2, <2>3, <2>4, <2>5, <3>1, <3>5
      <4>2. z \in decoder.fed /\ z.seq = s - 1 /\ z.line = l
        BY Zenon, <2>6, <4>1
      <4>3. k \in Int /\ p.seq <= k /\ k <= s
        BY <2>3, <3>1, <3>5, <4>1
      <4>4. CASE k = s
        <5>1. q = [seq |-> k, line |-> p.line]
          BY Zenon, <4>1, <4>4 DEF q
        <5> QED BY Zenon, <2>2, <5>1
      <4>5. CASE k # s /\ p.seq < s - 1
        <5>1. k \in p.seq..z.seq
          BY SMTT(60), <2>3, <4>1, <4>2, <4>3, <4>5
        <5>2. [seq |-> k, line |-> p.line] \in decoder.fed
          BY Zenon, <1>0, <4>1, <4>2, <4>5, <5>1 DEF NoHoleInADecoder
        <5> QED BY Zenon, <2>2, <5>2
      <4>6. CASE k # s /\ ~(p.seq < s - 1)
        <5>1. k = p.seq
          BY <2>3, <4>1, <4>3, <4>6
        <5>2. p = [seq |-> k, line |-> p.line]
          BY Zenon, <2>4, <4>1, <5>1
        <5> QED BY Zenon, <2>2, <4>1, <5>2
      <4> QED BY Zenon, <4>4, <4>5, <4>6
    <3> QED BY Zenon, <2>2, <3>2, <3>3, <3>4, <3>5
  <2> QED BY <2>9, <2>11, <2>12, <2>13 DEF FeedInv
<1> QED BY <1>2, <1>3

LEMMA GiveUpKeeps == ASSUME FeedInv, FeedFails \/ FeedFindsItStopped PROVE FeedInv'
<1>0. Shapes
    BY DEF FeedInv
<1>1. feedAt' = "top" /\ UNCHANGED <<counts, inHand, feeding>> /\ FeedTearsDown
    BY DEF FeedFails, FeedFindsItStopped
<1>2. DOMAIN seat' = SeatFields /\ seat'.head = seat.head /\ decoder' = NoDecoder
    BY <1>0, <1>1 DEF FeedTearsDown, Shapes, SeatFields
<1> QED BY <1>1, <1>2, WithoutDecoder

LEMMA JoinKeeps == ASSUME FeedInv, NEW a \in Actors, TearJoins(a) PROVE FeedInv'
<1>1. started' = FALSE /\ UNCHANGED <<seat, counts, decoder, feedAt, inHand, feeding>>
    BY Zenon DEF TearJoins, seatOf, feedVars
<1>2. Shapes'
    BY Zenon, <1>1 DEF FeedInv, Shapes, Past
<1>3. Ordered'
    BY Zenon, <1>1 DEF FeedInv, Ordered, Line
<1>4. Adjacent'
    BY Zenon, <1>1 DEF FeedInv, Adjacent, OfLine, Fed
<1>5. NoHoleInADecoder'
    BY <1>1 DEF FeedInv, NoHoleInADecoder
<1> QED BY Zenon, <1>2, <1>3, <1>4, <1>5 DEF FeedInv

LEMMA FeedHolds == FeedInv /\ [PlayerNext]_playerVars => FeedInv'
<1> SUFFICES ASSUME FeedInv, [PlayerNext]_playerVars PROVE FeedInv'
    OBVIOUS
<1>0. Shapes
    BY DEF FeedInv
<1>1. CASE FeedPulls \/ FeedMindsJumps \/ FeedLacksInit \/ FeedMakesDecoder \/ FeedReady
           \/ FeedWaits \/ FeedPushes \/ FeedFails \/ FeedFindsItStopped
    BY Zenon, <1>1, PullKeeps, MindKeeps, LacksKeeps, MakeKeeps, ReadyKeeps, WaitKeeps, PushKeeps,
       GiveUpKeeps
<1>2. CASE \E a \in Actors : TearTakes(a)
  <2>1. UNCHANGED <<seat, counts, feedAt, inHand, feeding>> /\ decoder' = NoDecoder
    BY Zenon, <1>2 DEF TearTakes, seatOf, feedVars
  <2>2. DOMAIN seat' = SeatFields
    BY <1>0, <2>1 DEF Shapes
  <2> QED BY Zenon, <2>1, <2>2, WithoutDecoder
<1>3. CASE \E a \in Actors : TearJoins(a)
    BY <1>3, JoinKeeps
<1>4. CASE PressLive
  <2>1. Newest \in Int
    BY ApplianceAssumption
  <2>2. /\ JumpsTo(Newest, IF seat.play = "paused" THEN "playing" ELSE seat.play)
        /\ UNCHANGED <<decoder, feedAt, inHand, feeding, started>>
    BY <1>4 DEF PressLive, feedVars
  <2> QED BY <2>1, <2>2, JumpsToKeeps
<1>5. CASE \E s \in Segments : PressSeek(s)
  <2>1. PICK s \in Segments : PressSeek(s)
    BY <1>5
  <2>2. s \in Int /\ JumpsTo(s, seat.play) /\ UNCHANGED <<decoder, feedAt, inHand, feeding, started>>
    BY <2>1 DEF PressSeek, feedVars, Segments
  <2> QED BY <2>2, JumpsToKeeps
<1>6. CASE ReceiveEnds \/ PollRebuilt
  <2>1. Rebuilds /\ UNCHANGED <<decoder, feedAt, inHand, feeding, started>>
    BY <1>6 DEF ReceiveEnds, PollRebuilt, feedVars
  <2> QED BY <2>1, RebuildsKeeps
<1>7. CASE PollMoves
  <2>1. counts' = [counts EXCEPT ![Len(counts)] = @ + 1]
    BY Zenon, <1>7 DEF PollMoves
  <2>2. \E e : seat' = FreshSeat(e, seat.pin)
    BY <1>7 DEF PollMoves
  <2>3. UNCHANGED <<decoder, feedAt, inHand, feeding, started>>
    BY Zenon, <1>7 DEF PollMoves, feedVars
  <2>4. DOMAIN seat' = SeatFields /\ seat'.head \in Int
    BY <2>2, SeatFacts
  <2>5. counts \in Seq(Nat) /\ Len(counts) > 0 /\ Len(counts) \in Nat
    BY SMTT(60), <1>0 DEF Shapes
  <2>6. /\ counts' \in Seq(Nat) /\ Len(counts') = Len(counts)
        /\ \A k \in 1..Len(counts) : counts'[k] >= counts[k]
        /\ \A l \in Lines : Past(l) => l # Line'
    BY Zenon, <2>1, <2>5, CountJumps
  <2>7. Len(counts') >= Len(counts)
    BY <2>5, <2>6
  <2>8. Jumped
    BY <2>3, <2>4, <2>6, <2>7 DEF Jumped
  <2> QED BY Zenon, <2>8, JumpedKeeps
<1>8. CASE DecoderEmits
  <2>1. /\ UNCHANGED <<seat, counts, feedAt, inHand, feeding, started>>
        /\ decoder' = [decoder EXCEPT !.frags = Tail(@)]
    BY <1>8 DEF DecoderEmits, seatOf, feedVars
  <2>2. DOMAIN decoder' = DecoderFields /\ decoder'.fed = decoder.fed /\ decoder'.on = decoder.on
    BY <1>0, <2>1 DEF Shapes, DecoderFields
  <2>3. Same
    BY <1>0, <2>1, <2>2 DEF Same, Shapes
  <2> QED BY <2>3, SameKeeps
<1>9. CASE \/ FeedStarts \/ (\E a \in Actors : TearAsks(a)) \/ PressPlay \/ PressHold
           \/ ContinueEnds \/ (\E event \in 0..2 : PressPin(event))
  <2>1. /\ UNCHANGED <<counts, decoder, feedAt, inHand, feeding, started>>
        /\ DOMAIN seat' = SeatFields /\ seat'.head = seat.head
    BY ZenonT(60), <1>0, <1>9 DEF FeedStarts, TearAsks, PressPlay, PressHold, ContinueEnds, PressPin,
            feedVars, Shapes, SeatFields
  <2>2. Same
    BY <1>0, <2>1 DEF Same, Shapes
  <2> QED BY <2>2, SameKeeps
<1>10. CASE \/ (\E a \in Actors : LeavingEmits(a))
            \/ DeliverDiscards \/ DeliverTakes \/ DeliverShows
            \/ (\E a \in Actors : FlushClears(a)) \/ (\E a \in Actors : FlushEnds(a))
            \/ PressStop \/ PressContinue \/ PressReceive \/ StopEnds \/ SeekEnds \/ PinEnds
            \/ CredentialsCome \/ PollRebuilds \/ UNCHANGED playerVars
  <2>1. UNCHANGED <<seat, counts, decoder, feedAt, inHand, feeding, started>>
    BY ZenonT(60), <1>10 DEF LeavingEmits, DeliverDiscards, DeliverTakes, DeliverShows, FlushClears,
            FlushEnds, PressStop, PressContinue, PressReceive, StopEnds, SeekEnds, PinEnds,
            CredentialsCome, PollRebuilds, playerVars, seatOf, feedVars
  <2>2. Same
    BY <1>0, <2>1 DEF Same, Shapes
  <2> QED BY <2>2, SameKeeps
<1> QED BY Zenon, PlayerCases, <1>1, <1>2, <1>3, <1>4, <1>5, <1>6, <1>7, <1>8, <1>9, <1>10

LEMMA FeedInit == PlayerInit => FeedInv
<1> SUFFICES ASSUME PlayerInit PROVE FeedInv
    OBVIOUS
<1>1. counts = <<0>> /\ seat = FreshSeat(1, 0) /\ decoder = NoDecoder /\ feedAt = "top"
      /\ inHand = NoSegment
    BY DEF PlayerInit
<1>2. counts \in Seq(Nat) /\ Len(counts) = 1 /\ counts[1] = 0 /\ Len(counts) > 0
    BY <1>1
<1>3. inHand \in [seq : Int, line : Lines, init : BOOLEAN] /\ inHand.line = <<1, 0>>
    BY <1>1 DEF NoSegment, Lines
<1>4. Past(inHand.line)
    BY <1>2, <1>3 DEF Past
<1>5. Shapes
  <2>1. DOMAIN seat = SeatFields /\ seat.head = 0 /\ 0 \in Int
    BY <1>1, SeatFacts
  <2>2. DOMAIN decoder = DecoderFields /\ decoder.fed = {}
    BY Zenon, <1>1, SeatFacts
  <2> QED BY Zenon, <1>1, <1>2, <1>3, <1>4, <2>1, <2>2 DEF Shapes
<1>6. Ordered /\ Adjacent /\ NoHoleInADecoder
    BY <1>1, SeatFacts DEF Ordered, Adjacent, NoHoleInADecoder, OfLine
<1> QED BY <1>5, <1>6 DEF FeedInv

\* Through every hold, seek, change of event and rebuilt session, and with two
\* threads taking decoders down under the feed thread, a decoder gets the
\* fragments of a timeline one after the other (feed_wait_step keeps the one in
\* hand through a hold, and drops it only for a jump or with its decoder).
THEOREM DecodersAreFedWhole == PlayerSpec => []NoHoleInADecoder
<1>1. FeedInv => NoHoleInADecoder
    BY DEF FeedInv
<1> QED BY <1>1, FeedInit, FeedHolds, PTL DEF PlayerSpec
-----------------------------------------------------------------------------
LEMMA EmptiedHolds == Emptied /\ [PlayerNext]_playerVars => Emptied'
<1> SUFFICES ASSUME Emptied, [PlayerNext]_playerVars PROVE Emptied'
    OBVIOUS
<1>0. "op" \in Actors /\ "poll" \in Actors
    BY DEF Actors
<1>1. CASE DecoderEmits \/ (\E a \in Actors : LeavingEmits(a))
  <2>1. UNCHANGED <<onAir, at>> /\ (~onAir => dq' = dq)
    BY <1>1 DEF DecoderEmits, LeavingEmits, Enqueues, handlerVars
  <2> QED BY <2>1 DEF Emptied
<1>2. CASE FeedMindsJumps \/ DeliverDiscards \/ DeliverTakes
  <2>1. UNCHANGED <<onAir, at>> /\ (~onAir => dq' = dq \/ dq' = <<>>)
    BY <1>2 DEF FeedMindsJumps, DeliverDiscards, DeliverTakes, handlerVars
  <2> QED BY Zenon, <2>1 DEF Emptied
<1>3. CASE \E a \in Actors : FlushClears(a)
  <2>1. dq' = <<>> /\ DOMAIN at' = Actors
    BY <1>3 DEF FlushClears, Emptied
  <2> QED BY <2>1 DEF Emptied
<1>4. CASE \E a \in Actors : TearAsks(a) \/ TearTakes(a) \/ TearJoins(a) \/ FlushEnds(a)
  <2>1. UNCHANGED <<onAir, dq>> /\ DOMAIN at' = Actors
        /\ (at["op"] = "flush" => at'["op"] = "flush")
    BY <1>0, <1>4 DEF TearAsks, TearTakes, TearJoins, FlushEnds, Emptied
  <2> QED BY Zenon, <2>1 DEF Emptied
<1>5. CASE PressStop
    BY <1>0, <1>5 DEF PressStop, Press, Emptied
<1>6. CASE PressPlay
    BY <1>6 DEF PressPlay, Press, Emptied
<1>7. CASE \/ PressHold \/ PressContinue \/ PressLive \/ PressReceive
           \/ (\E s \in Segments : PressSeek(s)) \/ (\E event \in 0..2 : PressPin(event))
           \/ StopEnds \/ ContinueEnds \/ SeekEnds \/ PinEnds \/ ReceiveEnds
  <2>1. UNCHANGED <<onAir, dq>> /\ at["op"] # "flush" /\ DOMAIN at' = Actors
    BY Zenon, <1>7 DEF PressHold, PressContinue, PressLive, PressReceive, PressSeek, PressPin, Press,
            StopEnds, ContinueEnds, SeekEnds, PinEnds, ReceiveEnds, Emptied
  <2> QED BY <2>1 DEF Emptied
<1>8. CASE PollRebuilds \/ PollRebuilt
  <2>1. UNCHANGED <<onAir, dq>> /\ DOMAIN at' = Actors /\ at'["op"] = at["op"]
    BY <1>0, <1>8 DEF PollRebuilds, PollRebuilt, Emptied
  <2> QED BY <2>1 DEF Emptied
<1>9. CASE \/ FeedStarts \/ FeedPulls \/ FeedLacksInit \/ FeedMakesDecoder
           \/ FeedReady \/ FeedWaits \/ FeedPushes \/ FeedFails \/ FeedFindsItStopped
           \/ DeliverShows \/ CredentialsCome \/ PollMoves \/ UNCHANGED playerVars
  <2>1. UNCHANGED <<onAir, dq, at>>
    BY Zenon, <1>9 DEF FeedStarts, FeedPulls, FeedLacksInit, FeedMakesDecoder, FeedReady, FeedWaits,
            FeedPushes, FeedFails, FeedFindsItStopped, DeliverShows, CredentialsCome,
            PollMoves, playerVars, handlerVars
  <2> QED BY <2>1 DEF Emptied
<1> QED BY ZenonT(60), PlayerCases, <1>1, <1>2, <1>3, <1>4, <1>5, <1>6, <1>7, <1>8, <1>9

\* Stop empties the delivery queue and it stays empty until Play, though decoders
\* go on emitting pictures and another thread may be taking one down (enqueue,
\* flush_delivery, stop_playback).
THEOREM StopKeepsTheQueueEmpty == PlayerSpec => []NothingQueuedWhileStopped
<1>1. PlayerInit => Emptied
    BY DEF PlayerInit, Emptied, Actors
<1>2. Emptied => NothingQueuedWhileStopped
    BY DEF Emptied, NothingQueuedWhileStopped
<1> QED BY <1>1, <1>2, EmptiedHolds, PTL DEF PlayerSpec
------------------------------------------------------------------------------

MachineFields == {"state", "set", "head", "retry", "backoff", "due", "overdue", "backed",
                  "streamed"}

\* A child that is up was up when the pass looked: only Spawn starts one, and the
\* pass that spawns has looked before.
Truthful ==
    /\ DOMAIN m = MachineFields
    /\ child = "up" => m.state \in Sending /\ (pc = "act" => in.alive)

LEMMA SessionCases ==
    [Next]_vars =>
        \/ Look \/ Rebuild \/ Act \/ Drain \/ DrainEnds \/ EndOfPass
        \/ FeederPoll \/ FeederDownload \/ FeederPollFails
        \/ (\E e \in Ids : GoLive(e)) \/ (\E e \in Ids : Capture(e)) \/ (\E e \in Ids : EndEvent(e))
        \/ FarEndReads \/ ChildFinishes \/ SetEnabled \/ Update
        \/ FarEndGoesDeaf \/ ChildDies \/ FarEndHears \/ Tick \/ UNCHANGED vars
BY Zenon DEF Next, Loop, Feeder, Main, Ffmpeg, Chance

\* RelayMachine::enter gives the machine its new state.
LEMMA EnterFacts ==
    ASSUME NEW mm, DOMAIN mm = MachineFields, NEW s
    PROVE  DOMAIN Enter(mm, s) = MachineFields /\ Enter(mm, s).state = s
BY DEF Enter, MachineFields

LEMMA FieldFacts ==
    ASSUME NEW mm, DOMAIN mm = MachineFields, NEW x, NEW y
    PROVE  /\ DOMAIN [mm EXCEPT !.head = x] = MachineFields
           /\ [mm EXCEPT !.head = x].state = mm.state
           /\ DOMAIN [mm EXCEPT !.set = x] = MachineFields
           /\ [mm EXCEPT !.set = x].state = mm.state
           /\ DOMAIN [mm EXCEPT !.set = x, !.head = y] = MachineFields
           /\ [mm EXCEPT !.set = x, !.head = y].state = mm.state
           /\ DOMAIN [mm EXCEPT !.backed = x] = MachineFields
           /\ [mm EXCEPT !.backed = x].state = mm.state
           /\ DOMAIN [mm EXCEPT !.due = x] = MachineFields
           /\ [mm EXCEPT !.due = x].state = mm.state
           /\ DOMAIN [mm EXCEPT !.overdue = x] = MachineFields
           /\ [mm EXCEPT !.overdue = x].state = mm.state
           /\ DOMAIN [mm EXCEPT !.due = x, !.overdue = y] = MachineFields
           /\ [mm EXCEPT !.due = x, !.overdue = y].state = mm.state
           /\ DOMAIN [mm EXCEPT !.retry = x] = MachineFields
           /\ [mm EXCEPT !.retry = x].state = mm.state
           /\ DOMAIN [mm EXCEPT !.retry = x, !.overdue = y] = MachineFields
           /\ [mm EXCEPT !.retry = x, !.overdue = y].state = mm.state
           /\ DOMAIN [mm EXCEPT !.head = x, !.due = y] = MachineFields
           /\ [mm EXCEPT !.head = x, !.due = y].state = mm.state
           /\ DOMAIN [mm EXCEPT !.backoff = x, !.retry = y] = MachineFields
           /\ [mm EXCEPT !.backoff = x, !.retry = y].state = mm.state
BY DEF MachineFields

\* Leaving the blocked state; a machine that sends is not in it.
LEMMA Unblocked ==
    ASSUME DOMAIN m = MachineFields
    PROVE  DOMAIN M = MachineFields /\ (m.state \in Sending => M = m)
<1>1. CASE m.state = "blocked"
    BY <1>1, EnterFacts DEF M, Sending
<1>2. CASE m.state # "blocked"
    BY <1>2 DEF M
<1> QED BY <1>1, <1>2

\* Content moves on: the machine stays in a state that sends.
LEMMA MovingSends ==
    ASSUME DOMAIN m = MachineFields
    PROVE  /\ DOMAIN Moving = MachineFields
           /\ M.state \in Sending => Moving.state \in Sending
<1> DEFINE E == [Enter(M, "streaming") EXCEPT !.due = 0, !.overdue = Unset]
           B == IF M.state = "awaiting" THEN E ELSE M
<1>1. DOMAIN M = MachineFields
    BY Zenon, Unblocked
<1>2. DOMAIN Enter(M, "streaming") = MachineFields /\ Enter(M, "streaming").state = "streaming"
    BY <1>1, EnterFacts
<1>3. DOMAIN E = MachineFields /\ E.state = "streaming"
    BY <1>2, FieldFacts
<1>4. DOMAIN B = MachineFields /\ (M.state \in Sending => B.state \in Sending)
    BY <1>1, <1>3 DEF Sending
<1>5. Moving = [B EXCEPT !.backed = Unset]
    BY DEF Moving
<1> HIDE DEF B
<1> QED BY <1>4, <1>5, FieldFacts

LEMMA ResumedSends ==
    ASSUME NEW mm, DOMAIN mm = MachineFields
    PROVE  /\ DOMAIN Unstalled(mm) = MachineFields
           /\ mm.state \in Sending => Unstalled(mm).state \in Sending
BY Zenon, EnterFacts DEF Unstalled, Sending

\* A decision to leave the child alone keeps to Truthful when the new machine
\* sends, or no child was seen.
LEMMA JustKeeps ==
    ASSUME Truthful, pc = "act", NEW mm, DOMAIN mm = MachineFields, Just(mm),
           ~in.alive \/ mm.state \in Sending
    PROVE  Truthful'
BY DEF Truthful, Just, childVars

LEMMA KillKeeps ==
    ASSUME NEW mm, DOMAIN mm = MachineFields, Kill(mm)
    PROVE  Truthful'
BY Zenon DEF Truthful, Kill, StopChild

LEMMA CloseKeeps ==
    ASSUME Truthful, NEW mm, DOMAIN mm = MachineFields, CloseInput(mm), mm.state \in Sending
    PROVE  Truthful'
BY DEF Truthful, CloseInput, childVars

LEMMA ActKeeps ==
    ASSUME Truthful, Act
    PROVE  Truthful'
<1>0. DOMAIN m = MachineFields /\ DOMAIN M = MachineFields /\ pc = "act"
    BY Zenon, Unblocked DEF Truthful, Act
<1>s. \A s \in States : DOMAIN Enter(m, s) = MachineFields /\ Enter(m, s).state = s
                        /\ DOMAIN Enter(M, s) = MachineFields /\ Enter(M, s).state = s
    BY <1>0, EnterFacts
<1>t. {"idle", "waiting", "reconnecting", "stopped", "blocked", "ending", "streaming",
       "stalled", "awaiting"} \subseteq States
    BY DEF States, Sending
<1>c. child # "up" \/ (in.alive /\ M = m /\ M.state \in Sending)
    BY ZenonT(60), <1>0, Unblocked DEF Truthful
<1>1. CASE OperatorOff
  <2>1. child' # "up"
    BY <1>1, <1>c DEF OperatorOff, StopChild, childVars
  <2>2. DOMAIN m' = MachineFields
    BY <1>0, <1>1, <1>s, <1>t, FieldFacts DEF OperatorOff
  <2> QED BY <2>1, <2>2 DEF Truthful
<1>2. CASE Unsendable
  <2>1. CASE in.alive
    BY ZenonT(60), <1>2, <1>s, <1>t, <2>1, KillKeeps DEF Unsendable
  <2>2. CASE ~in.alive
    BY SMTT(60), <1>0, <1>2, <1>s, <1>t, <2>2, JustKeeps DEF Unsendable
  <2> QED BY Zenon, <2>1, <2>2
<1>3. CASE ConnectionLost
    BY ZenonT(60), <1>0, <1>3, <1>s, <1>t, JustKeeps DEF ConnectionLost, Dropped
<1>4. CASE NothingOnAir
  <2>1. CASE in.alive
    BY Zenon, <1>4, <1>s, <1>t, <2>1, CloseKeeps DEF NothingOnAir, Sending
  <2>2. CASE ~in.alive
    BY ZenonT(60), <1>0, <1>4, <1>s, <1>t, <2>2, JustKeeps DEF NothingOnAir
  <2> QED BY <2>1, <2>2
<1>5. CASE EverythingSent
    BY <1>0, <1>5, <1>s, <1>t, JustKeeps DEF EverythingSent, Starts
<1>p. DOMAIN Positioned = MachineFields
    BY Zenon, <1>0, FieldFacts DEF Positioned
<1>q. \A s \in States : DOMAIN Enter(Positioned, s) = MachineFields /\ Enter(Positioned, s).state = s
    BY ZenonT(60), <1>p, EnterFacts
<1>6. CASE WaitsToStart
    BY <1>0, <1>6, <1>p, <1>q, <1>t, JustKeeps DEF WaitsToStart, Starts
<1>7. CASE Spawn
  <2>1. m' = [Enter(Positioned, "streaming") EXCEPT !.due = 0] /\ pc' = "tail"
    BY <1>7 DEF Spawn
  <2>2. DOMAIN m' = MachineFields /\ m'.state = "streaming"
    BY <1>q, <1>t, <2>1, FieldFacts
  <2> QED BY <2>1, <2>2 DEF Truthful, Sending
<1>8. CASE AllFed
  <2>1. CASE M.state = "ending"
    BY Zenon, <1>0, <1>8, <2>1, JustKeeps DEF AllFed, Sending
  <2>2. CASE M.state # "ending"
    BY Zenon, <1>8, <1>s, <1>t, <2>2, CloseKeeps DEF AllFed, Sending
  <2> QED BY Zenon, <2>1, <2>2
<1>9. CASE StillEnding
    BY Zenon, <1>0, <1>9, JustKeeps DEF StillEnding, Sending
<1>m. DOMAIN Moving = MachineFields /\ (M.state \in Sending => Moving.state \in Sending)
    BY <1>0, MovingSends
<1>10. CASE NotAccepting
  <2> DEFINE A == IF M.state = "awaiting" THEN M ELSE Enter(M, "awaiting")
             B == [M EXCEPT !.backed = IF @ = Unset THEN 0 ELSE @]
             K == [Enter(M, "reconnecting") EXCEPT !.retry = BackoffFirst]
  <2>1. DOMAIN A = MachineFields /\ A.state \in Sending
    BY <1>0, <1>s, <1>t DEF Sending
  <2>2. DOMAIN [A EXCEPT !.head = Behind] = MachineFields /\ [A EXCEPT !.head = Behind].state \in Sending
    BY <2>1, FieldFacts
  <2>3. DOMAIN B = MachineFields /\ B.state = M.state
    BY <1>0 DEF MachineFields
  <2>4. DOMAIN K = MachineFields
    BY <1>s, <1>t, FieldFacts
  <2>5. Just([A EXCEPT !.head = Behind]) \/ Kill(K) \/ Just(B)
    BY Zenon, <1>10 DEF NotAccepting
  <2> HIDE DEF A, B, K
  <2>6. CASE Just(B)
    <3>1. DOMAIN m' = MachineFields /\ pc' = "tail" /\ child' = child /\ m'.state = M.state
      BY Zenon, <2>3, <2>6 DEF Just, childVars
    <3> QED BY Zenon, <1>c, <3>1 DEF Truthful
  <2> QED BY ZenonT(60), <1>0, <2>2, <2>4, <2>5, <2>6, JustKeeps, KillKeeps
<1>11. CASE NotYetDue
  <2> DEFINE B == [Moving EXCEPT !.overdue = Unset]
  <2>1. DOMAIN B = MachineFields /\ B.state = Moving.state
    BY <1>m, FieldFacts
  <2>2. Just(Unstalled(B))
    BY Zenon, <1>11 DEF NotYetDue
  <2> HIDE DEF B
  <2>3. DOMAIN m' = MachineFields /\ pc' = "tail" /\ child' = child
        /\ (M.state \in Sending => m'.state \in Sending)
    BY ZenonT(60), <1>m, <2>1, <2>2, ResumedSends DEF Just, childVars
  <2> QED BY <1>c, <2>3 DEF Truthful
<1>12. CASE Overdue
  <2> DEFINE late == greatest(Moving.overdue, 0)
             B == [Moving EXCEPT !.overdue = late]
             K == [Enter(B, "reconnecting") EXCEPT !.retry = BackoffFirst, !.overdue = Unset]
  <2>1. DOMAIN B = MachineFields /\ B.state = Moving.state
    BY <1>m, FieldFacts
  <2>2. Just(Enter(B, "stalled")) \/ Kill(K) \/ Just(B)
    BY Zenon, <1>12 DEF Overdue
  <2> HIDE DEF B
  <2>3. DOMAIN Enter(B, "stalled") = MachineFields /\ Enter(B, "stalled").state = "stalled"
        /\ DOMAIN Enter(B, "reconnecting") = MachineFields
    BY <2>1, EnterFacts
  <2>4. DOMAIN K = MachineFields
    BY ZenonT(60), <2>3, FieldFacts
  <2> HIDE DEF K
  <2>5. CASE Just(B)
    <3>1. DOMAIN m' = MachineFields /\ pc' = "tail" /\ child' = child
          /\ (M.state \in Sending => m'.state \in Sending)
      BY <1>m, <2>1, <2>5 DEF Just, childVars
    <3> QED BY <1>c, <3>1 DEF Truthful
  <2>6. "stalled" \in Sending
    BY DEF Sending
  <2> QED BY <1>0, <2>2, <2>3, <2>4, <2>5, <2>6, JustKeeps, KillKeeps
<1>13. CASE FeedSegment
  <2> DEFINE B == [Moving EXCEPT !.overdue = Unset]
  <2>1. DOMAIN B = MachineFields /\ B.state = Moving.state
    BY <1>m, FieldFacts
  <2>2. m' = [Unstalled(B) EXCEPT !.head = @ + 1, !.due = @ + Seg] /\ pc' = "tail" /\ child' = child
    BY Zenon, <1>13 DEF FeedSegment, childVars
  <2> HIDE DEF B
  <2>3. DOMAIN Unstalled(B) = MachineFields /\ (B.state \in Sending => Unstalled(B).state \in Sending)
    BY <2>1, ResumedSends
  <2>4. DOMAIN m' = MachineFields /\ m'.state = Unstalled(B).state
    BY <2>2, <2>3 DEF MachineFields
  <2> QED BY <1>c, <1>m, <2>1, <2>2, <2>3, <2>4 DEF Truthful
<1> QED BY ZenonT(60), <1>1, <1>2, <1>3, <1>4, <1>5, <1>6, <1>7, <1>8, <1>9, <1>10, <1>11, <1>12,
           <1>13 DEF Act

LEMMA TruthfulHolds == Truthful /\ [Next]_vars => Truthful'
<1> SUFFICES ASSUME Truthful, [Next]_vars PROVE Truthful'
    OBVIOUS
<1>1. CASE Look
    BY Zenon, <1>1 DEF Look, childVars, Truthful
<1>2. CASE Rebuild
    BY <1>2 DEF Rebuild, StopChild, Truthful, MachineFields
<1>3. CASE Act
    BY <1>3, ActKeeps
<1>4. CASE EndOfPass
  <2>1. CASE child = "dead" /\ m.state = "reconnecting"
    <3>1. m' = BackedOff /\ child' = "none"
      BY <1>4, <2>1 DEF EndOfPass
    <3>2. DOMAIN BackedOff = MachineFields
      BY Zenon, FieldFacts DEF BackedOff, Truthful
    <3> QED BY Zenon, <3>1, <3>2 DEF Truthful
  <2>2. CASE ~(child = "dead" /\ m.state = "reconnecting")
    BY <1>4, <2>2 DEF EndOfPass, Truthful
  <2> QED BY Zenon, <2>1, <2>2
<1>5. CASE Drain \/ DrainEnds
  <2>1. UNCHANGED <<m, in, child>> /\ pc' # "act"
    BY Zenon, <1>5 DEF Drain, DrainEnds
  <2> QED BY Zenon, <2>1 DEF Truthful
<1>6. CASE Tick
  <2>1. DOMAIN m' = DOMAIN m /\ m'.state = m.state
    BY <1>6 DEF Tick, Truthful, MachineFields
  <2>2. UNCHANGED <<child, pc, in>>
    BY Zenon, <1>6 DEF Tick, childVars
  <2> QED BY <2>1, <2>2 DEF Truthful
<1>7. CASE ChildFinishes \/ ChildDies
    BY <1>7 DEF ChildFinishes, ChildDies, loopVars, Truthful
<1>8. CASE \/ FeederPoll \/ FeederDownload \/ FeederPollFails
           \/ (\E e \in Ids : GoLive(e)) \/ (\E e \in Ids : Capture(e))
           \/ (\E e \in Ids : EndEvent(e))
           \/ FarEndReads \/ SetEnabled \/ Update
           \/ FarEndGoesDeaf \/ FarEndHears \/ UNCHANGED vars
  <2>1. UNCHANGED <<m, in, pc, child>>
    BY ZenonT(60), <1>8 DEF FeederPoll, FeederDownload, FeederPollFails, GoLive, Capture, EndEvent,
            FarEndReads, SetEnabled, Update, FarEndGoesDeaf, FarEndHears, loopVars,
            childVars, vars
  <2> QED BY <2>1 DEF Truthful
<1> QED BY ZenonT(60), SessionCases, <1>1, <1>2, <1>3, <1>4, <1>5, <1>6, <1>7, <1>8

\* A running ffmpeg is always one the state machine counts as sending, whatever
\* order the switch, an edit, a change of event, a death and a stale look at the
\* inputs come in (relay_session.cpp run, relay_state.cpp step).
THEOREM NoHiddenStream == Spec => []NoStreamBehindItsState
<1>1. Init => Truthful
    BY Zenon DEF Init, NoMachine, Truthful, MachineFields
<1>2. Truthful => NoStreamBehindItsState
    BY SMTT(60) DEF Truthful, NoStreamBehindItsState
<1> QED BY <1>1, <1>2, TruthfulHolds, PTL DEF Spec
-----------------------------------------------------------------------------
SessionFields == {"there", "on", "rev", "feeder"}

\* Every session is a record, and of the feeder there is.
Attached ==
    /\ DOMAIN sessions = Dests
    /\ \A d \in Dests : sessions[d] = Nobody \/
           /\ DOMAIN sessions[d] = SessionFields
           /\ feeder.there /\ sessions[d].feeder = feeder.id

LEMMA SyncAttaches ==
    ASSUME NEW rows, NEW running, NEW f,
           \A d \in Dests : running[d] = Nobody \/ running[d].feeder = f,
           sessions' = Sync(rows, running, f), feeder'.there, feeder'.id = f
    PROVE  Attached'
<1>1. DOMAIN Sync(rows, running, f) = Dests
    BY Zenon DEF Sync
<1>2. ASSUME NEW d \in Dests, rows[d].there
      PROVE  Sync(rows, running, f)[d] = Session(rows[d].on, rows[d].rev, f)
  <2>1. ~Nobody.there
    BY ZenonT(60) DEF Nobody
  <2>2. (IF running[d].there THEN running[d].feeder ELSE f) = f
    BY SMTT(60), <2>1
  <2>3. Sync(rows, running, f)[d] = Session(rows[d].on, rows[d].rev,
                                        IF running[d].there THEN running[d].feeder ELSE f)
    BY ZenonT(60), <1>2 DEF Sync
  <2> QED BY Zenon, <2>2, <2>3
<1>3. ASSUME NEW d \in Dests, ~rows[d].there
      PROVE  Sync(rows, running, f)[d] = Nobody
    BY SMTT(60), <1>3 DEF Sync
<1>4. \A on, rev : DOMAIN Session(on, rev, f) = SessionFields /\ Session(on, rev, f).feeder = f
    BY ZenonT(60) DEF Session, SessionFields
<1>5. ASSUME NEW d \in Dests
      PROVE  Sync(rows, running, f)[d] = Nobody \/
                  /\ DOMAIN Sync(rows, running, f)[d] = SessionFields
                  /\ Sync(rows, running, f)[d].feeder = f
  <2>1. CASE rows[d].there
    <3>1. Sync(rows, running, f)[d] = Session(rows[d].on, rows[d].rev, f)
      BY Zenon, <1>2, <2>1
    <3> QED BY ZenonT(60), <1>4, <3>1
  <2>2. CASE ~rows[d].there
    BY <1>3, <2>2
  <2> QED BY Zenon, <2>1, <2>2
<1> QED BY ZenonT(60), <1>1, <1>5 DEF Attached

LEMMA AttachedHolds == Attached /\ [ServiceNext]_serviceVars => Attached'
<1> SUFFICES ASSUME Attached, [ServiceNext]_serviceVars PROVE Attached'
    OBVIOUS
<1>1. CASE \E c \in Callers : ReloadApplies(c)
  <2>1. PICK c \in Callers : ReloadApplies(c)
    BY SMTT(60), <1>1
  <2> DEFINE rows == calls[c].dests
  <2>2. CASE feeder.there /\ sessions' = Sync(rows, sessions, feeder.id) /\ feeder' = feeder
    <3>1. \A d \in Dests : sessions[d] = Nobody \/ sessions[d].feeder = feeder.id
      BY DEF Attached
    <3>2. feeder'.there /\ feeder'.id = feeder.id
      BY Zenon, <2>2
    <3> HIDE DEF rows
    <3> QED BY ZenonT(60), <2>2, <3>1, <3>2, SyncAttaches
  <2>3. CASE sessions' = DroppedWithFeeder
    BY SMTT(60), <2>3 DEF DroppedWithFeeder, Attached
  <2>4. CASE /\ feeder' = [there |-> TRUE, id |-> built', storage |-> calls[c].storage]
             /\ sessions' = Sync(rows, DroppedWithFeeder, built')
    <3>1. \A d \in Dests : DroppedWithFeeder[d] = Nobody
      BY Zenon DEF DroppedWithFeeder
    <3>2. feeder'.there /\ feeder'.id = built'
      BY Zenon, <2>4
    <3> HIDE DEF rows
    <3>3. sessions' = Sync(rows, DroppedWithFeeder, built')
      BY <2>4
    <3> QED BY ZenonT(60), <3>1, <3>2, <3>3, SyncAttaches
  <2> QED BY Zenon, <2>1, <2>2, <2>3, <2>4 DEF ReloadApplies
<1>2. CASE \E c \in Callers : SwitchSession(c)
  <2>1. PICK c \in Callers : SwitchSession(c)
    BY <1>2
  <2>2. feeder' = feeder
    BY Zenon, <2>1 DEF SwitchSession
  <2>3. CASE sessions' = sessions
    BY ZenonT(60), <2>2, <2>3 DEF Attached
  <2>4. CASE sessions[calls[c].d].there /\ sessions' = [sessions EXCEPT ![calls[c].d].on = calls[c].on]
    <3>1. DOMAIN sessions' = Dests
      BY <2>4 DEF Attached
    <3>2. ASSUME NEW d \in Dests, d # calls[c].d
          PROVE  sessions'[d] = sessions[d]
      BY <2>4, <3>2 DEF Attached
    <3>3. ASSUME NEW d \in Dests, d = calls[c].d
          PROVE  DOMAIN sessions'[d] = SessionFields /\ sessions'[d].feeder = sessions[d].feeder
                 /\ sessions[d] # Nobody
      BY SMTT(60), <2>4, <3>3 DEF Attached, SessionFields, Nobody
    <3> QED BY <2>2, <3>1, <3>2, <3>3 DEF Attached
  <2> QED BY <2>1, <2>3, <2>4 DEF SwitchSession
<1>3. CASE Restart
    BY <1>3 DEF Restart, DroppedWithFeeder, Attached
<1>4. CASE \/ SignIn \/ SignedOut \/ StopRebroadcast \/ RebroadcastEnds \/ SuperviseTidies
           \/ (\E c \in Callers : Handler(c) \/ ReloadReads(c) \/ StartRebroadcast(c))
           \/ UNCHANGED serviceVars
  <2>1. UNCHANGED <<sessions, feeder>>
    BY Zenon, <1>4 DEF SignIn, SignedOut, StopRebroadcast, RebroadcastEnds, SuperviseTidies, Handler,
            PutConfig, AddDestination, UpdateDestination, DeleteDestination,
            SwitchDestination, Disconnect, ServeCredentials, AskRebroadcast, Quietly,
            ReloadReads, StartRebroadcast, serviceVars
  <2>2. sessions' = sessions /\ feeder' = feeder
    BY Zenon, <2>1
  <2> QED BY Zenon, <2>2 DEF Attached
<1> QED BY ZenonT(60), <1>1, <1>2, <1>3, <1>4 DEF ServiceNext, Finishes

\* However reloads, edits, refreshes of the credentials and restarts cross, no
\* session outlives the feeder it reads from (service.cpp "they must go before it
\* does").
THEOREM NoSessionOutlivesItsFeeder == ServiceSpec => []SessionsReadTheFeeder
<1>1. ServiceInit => Attached
  <2> SUFFICES ASSUME ServiceInit PROVE Attached
    OBVIOUS
  <2>1. sessions = [d \in Dests |-> Nobody]
    BY Zenon DEF ServiceInit
  <2>2. DOMAIN sessions = Dests /\ \A d \in Dests : sessions[d] = Nobody
    BY ZenonT(60), <2>1
  <2> QED BY Zenon, <2>2 DEF Attached
<1>2. Attached => SessionsReadTheFeeder
    BY DEF Attached, SessionsReadTheFeeder, Nobody
<1> QED BY <1>1, <1>2, AttachedHolds, PTL DEF ServiceSpec
=============================================================================
