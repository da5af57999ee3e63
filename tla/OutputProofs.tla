---------------------------- MODULE OutputProofs ----------------------------
(***************************************************************************)
(* What a broadcast guarantees from Go Live to End, however many packets   *)
(* the encoder delivers and however the UI thread, the encoder's, the      *)
(* writer's and the readers' steps fall.                                   *)
(***************************************************************************)
EXTENDS EncoderOutput, TLAPS

UiPlaces == {"idle", "start", "complete", "capture", "accept", "register", "quit", "quitJoin",
             "destroy", "unregister", "lock", "flush", "drain", "join", "reset", "lan"}
Flags == [made : BOOLEAN, started : BOOLEAN, accepting : BOOLEAN, deferred : BOOLEAN,
          completing : BOOLEAN, asked : BOOLEAN, capturing : BOOLEAN,
          registered : BOOLEAN, known : BOOLEAN]
Writers  == [at : {"none", "wait", "complete", "check", "drain", "gone"}, run : BOOLEAN,
             take : Seq(Nat)]
Encoders == [at : {"idle", "hold", "push"}, pkt : Nat]
Events   == {"none", "made", "live", "ended"}

OutTypes ==
    /\ out \in Flags
    /\ held \in Seq(Nat) /\ muxed \in Seq(Nat) /\ sent \in Nat
    /\ writer \in Writers /\ encoder \in Encoders /\ ui \in UiPlaces /\ event \in Events

\* Where the UI thread holds ctx->mtx.
Locked == {"complete", "capture", "accept", "quit", "quitJoin",
           "flush", "drain", "join", "reset", "lan"}
Locks == mtx = "ui" => ui \in Locked

Completing == writer.at \in {"complete", "check", "drain"}

\* No packet is on its way to the muxer while a start is deferred, and a start is
\* finished by the writer only while it is; it is asked for once.
Gate ==
    /\ encoder.at = "push" => ~out.deferred
    /\ Completing \/ out.asked => out.deferred /\ out.completing
    /\ Completing => ~out.asked
    /\ ui # "idle" => out.made
    /\ encoder.at = "hold" /\ ~out.completing => out.deferred
    /\ ~out.made \/ ui = "start" =>
          /\ encoder.at = "idle" /\ ~out.started /\ ~out.accepting /\ ~out.capturing
          /\ ~out.deferred /\ ~out.asked /\ ~out.completing
    /\ ui = "start" => muxed = <<>> /\ held = <<>>

\* Who is in the middle of complete_start, and what the output is by then.
Under == {"muxer", "session", "begin", "anew", "hear"}
Stages ==
    /\ starting \in Under => ui = "complete" \/ (writer.at = "complete" /\ out.started)
    /\ ui \in {"start", "complete", "capture", "accept", "quit", "quitJoin"}
          => ~out.started /\ ~out.accepting
    /\ ui \in {"register", "unregister", "lock", "flush", "drain", "join"} => out.started
    /\ ui \in {"flush", "drain", "join", "reset", "lan"} => ~out.accepting
    /\ out.accepting => out.started
    /\ Completing => out.started
    /\ out.capturing => out.started \/ ui = "accept"
    /\ ui \in {"destroy", "flush", "drain", "join", "reset", "lan"} => ~out.capturing
    /\ (out.started /\ ui # "join") \/ ui \in {"complete", "capture", "accept"}
          => writer.run /\ writer.at # "gone"
    /\ writer.at = "gone" => ~writer.run

\* The event is live only in an output that is, or is being, started.
Lives ==
    /\ left => refused
    /\ event = "live" => out.started \/ refused \/ ui \in {"complete", "capture", "accept"}
    /\ ui = "complete" /\ starting \in (Under \ {"hear"}) \cup {"failed"} => event # "live"
    /\ ~out.made \/ ui = "start" => event = "none"

\* Nothing is given out behind the writer that has gone.
Spool ==
    /\ ui \in {"drain", "join", "reset"} /\ encoder.at = "push" => ~muxer.on
    /\ writer.at = "gone" /\ ui \in {"join", "reset"} => wq = <<>>
    /\ event = "ended" => ui = "reset" /\ writer.at = "gone"

Ascends(s) == \A i, j \in 1..Len(s) : i < j => s[i] < s[j]
Below(s, n) == \A i \in 1..Len(s) : s[i] < n
Upto(s, n) == \A i \in 1..Len(s) : s[i] <= n
Before(s, t) == \A i \in 1..Len(s), j \in 1..Len(t) : s[i] < t[j]

\* What is muxed, taken, held and in hand follows the order it was sent in.
Order ==
    /\ Ascends(muxed) /\ Ascends(held) /\ Upto(muxed, sent) /\ Upto(held, sent)
    /\ writer.at \in {"check", "drain"} =>
          Ascends(writer.take) /\ Upto(writer.take, sent) /\ Before(muxed, writer.take)
    /\ encoder.at # "idle" =>
          /\ encoder.pkt <= sent /\ Below(muxed, encoder.pkt) /\ Below(held, encoder.pkt)
          /\ writer.at \in {"check", "drain"} => Below(writer.take, encoder.pkt)
    /\ out.deferred /\ writer.at \in {"wait", "complete"} => muxed = <<>>

OutInv == OutTypes /\ Locks /\ Gate /\ Stages /\ Lives /\ Spool /\ Order
-----------------------------------------------------------------------------
\* What the writer holds is a sequence of packets after every step on it.
LEMMA TakeTyped ==
    ASSUME writer \in Writers, NEW s \in Seq(Nat)
    PROVE  /\ [writer EXCEPT !.take = s] \in Writers
           /\ [writer EXCEPT !.at = "wait", !.take = s] \in Writers
BY Zenon DEF Writers

\* One more packet on a sequence of packets.
LEMMA AppendTyped ==
    ASSUME NEW s \in Seq(Nat), NEW n \in Nat
    PROVE  Append(s, n) \in Seq(Nat)
OBVIOUS

\* A packet that was just sent follows all of a sequence sent before it.
LEMMA SentFollows ==
    ASSUME NEW s \in Seq(Nat), NEW n \in Nat, Upto(s, n)
    PROVE  Upto(s, n + 1) /\ Below(s, n + 1)
BY DEF Upto, Below

\* A packet that follows all of an ascending sequence may be put behind it.
LEMMA AppendAscends ==
    ASSUME NEW s \in Seq(Nat), NEW p \in Nat, NEW n \in Nat,
           Ascends(s), Below(s, p), Upto(s, n), p <= n
    PROVE  Ascends(Append(s, p)) /\ Upto(Append(s, p), n)
BY DEF Ascends, Below, Upto

\* Moving the first packet of what the writer holds behind what is muxed.
LEMMA HeadMoves ==
    ASSUME NEW s \in Seq(Nat), NEW t \in Seq(Nat), NEW n \in Nat, t # <<>>,
           Ascends(t), Upto(t, n), Before(s, t)
    PROVE  /\ Head(t) \in Nat /\ Head(t) <= n /\ Below(s, Head(t))
           /\ Tail(t) \in Seq(Nat) /\ Ascends(Tail(t)) /\ Upto(Tail(t), n)
           /\ Before(Append(s, Head(t)), Tail(t))
           /\ \A p \in Nat : Below(t, p) => Head(t) < p /\ Below(Tail(t), p)
PROOF
  <1>1. /\ Len(t) \in Nat /\ Len(t) > 0 /\ Head(t) = t[1] /\ Tail(t) \in Seq(Nat)
        /\ Len(Tail(t)) = Len(t) - 1
        /\ \A i \in 1..Len(Tail(t)) : Tail(t)[i] = t[i + 1] /\ t[i + 1] \in Nat
    OBVIOUS
  <1>2. t[1] \in Nat /\ t[1] <= n /\ Below(s, t[1])
    BY <1>1 DEF Upto, Before, Below
  <1>3. Ascends(Tail(t)) /\ Upto(Tail(t), n)
    BY <1>1 DEF Ascends, Upto
  <1>4. Before(Append(s, t[1]), Tail(t))
    <2> SUFFICES ASSUME NEW i \in 1..Len(Append(s, t[1])), NEW j \in 1..Len(Tail(t))
                 PROVE  Append(s, t[1])[i] < Tail(t)[j]
      BY DEF Before
    <2>1. t[1] < t[j + 1]
      BY <1>1 DEF Ascends
    <2>2. CASE i = Len(s) + 1
      BY <1>1, <1>2, <2>1, <2>2
    <2>3. CASE i \in 1..Len(s)
      BY SMTT(60), <1>1, <1>2, <2>3 DEF Before
    <2> QED BY <1>2, <2>2, <2>3
  <1>5. ASSUME NEW p \in Nat, Below(t, p) PROVE t[1] < p /\ Below(Tail(t), p)
    BY <1>1, <1>5 DEF Below
  <1> QED BY <1>1, <1>2, <1>3, <1>4, <1>5

\* What is put behind what is muxed stays before a packet that follows both.
LEMMA AppendBelow ==
    ASSUME NEW s \in Seq(Nat), NEW q \in Nat, NEW p \in Nat, Below(s, p), q < p
    PROVE  Below(Append(s, q), p)
BY DEF Below

\* Only the UI thread keeps ctx->mtx between two steps.
LEMMA LocksKept ==
    ASSUME Locks, OutputNext
    PROVE  Locks'
PROOF
  <1>1. CASE GoLive
    BY <1>1 DEF GoLive, NoOutput, locks, Locks, Locked
  <1>2. CASE StartRuns
    BY <1>2 DEF StartRuns, media, past, Locks, Locked
  <1>3. CASE StartCompletes
    BY <1>3 DEF StartCompletes, media, locks, past, Locks, Locked
  <1>4. CASE StartCaptures
    BY <1>4 DEF StartCaptures, media, locks, Locks, Locked
  <1>5. CASE StartAccepts
    BY <1>5 DEF StartAccepts, media, past, Locks, Locked
  <1>6. CASE StartRegisters
    BY <1>6 DEF StartRegisters, media, locks, past, Locks, Locked
  <1>7. CASE StartQuits
    BY <1>7 DEF StartQuits, media, locks, past, Locks, Locked
  <1>8. CASE StartJoins
    BY <1>8 DEF StartJoins, media, past, Locks, Locked
  <1>9. CASE EndPressed
    BY <1>9 DEF EndPressed, media, locks, past, Locks, Locked
  <1>10. CASE StopUnregisters
    BY <1>10 DEF StopUnregisters, media, locks, past, Locks, Locked
  <1>11. CASE StopGates
    BY <1>11 DEF StopGates, media, past, Locks, Locked
  <1>12. CASE StopFlushes
    BY <1>12 DEF StopFlushes, NoMuxer, locks, past, Locks, Locked
  <1>13. CASE StopShutsWriter
    BY <1>13 DEF StopShutsWriter, media, locks, past, Locks, Locked
  <1>14. CASE StopEnds
    BY <1>14 DEF StopEnds, media, locks, past, Locks, Locked
  <1>15. CASE StopResets
    BY <1>15 DEF StopResets, media, locks, past, Locks, Locked
  <1>16. CASE StopDropsLan
    BY <1>16 DEF StopDropsLan, media, past, Locks, Locked
  <1>17. CASE DestroyFrees
    BY <1>17 DEF DestroyFrees, NoOutput, NoMuxer, locks, Locks, Locked
  <1>18. CASE DestroyStops
    BY SMTT(60), <1>18 DEF DestroyStops, media, past, Locks, Locked
  <1>19. CASE BuildsMuxer \/ MakesSession \/ RemakesMuxer \/ BeginsEvent \/ HearsFragments
            \/ PacketComes \/ PacketHeld
    BY Zenon, <1>19 DEF BuildsMuxer, MakesSession, RemakesMuxer, BeginsEvent, HearsFragments,
        PacketComes, PacketHeld, locks, media, past, Locks, Locked
  <1>20. CASE PacketPushed \/ WriterFinishesStart \/ WriterCannotStart \/ WriterTakesHeld
            \/ WriterChecks \/ WriterDrains \/ WriterOpens
    BY <1>20 DEF PacketPushed, WriterFinishesStart, WriterCannotStart, WriterTakesHeld,
        WriterChecks, WriterDrains, WriterOpens, locks, media, past, Locks, Locked
  <1>21. CASE WriterSpools \/ WriterGoes \/ ReaderEnters \/ ReaderLeaves \/ CueComes \/
            CueFindsSession \/ CueAnswered
    BY <1>21 DEF WriterSpools, WriterGoes, ReaderEnters, ReaderLeaves, CueComes, CueFindsSession,
        CueAnswered, locks, media, past, Locks, Locked
  <1> QED
    BY <1>1, <1>2, <1>3, <1>4, <1>5, <1>6, <1>7, <1>8, <1>9, <1>10, <1>11, <1>12, <1>13,
       <1>14, <1>15, <1>16, <1>17, <1>18, <1>19, <1>20, <1>21
       DEF OutputNext, UiStep, WriterStep, CompleteStart

\* Types.
LEMMA OutTypesKept ==
    ASSUME OutTypes, OutputNext
    PROVE  OutTypes'
PROOF
  <1>1. CASE MakesSession
    <2>1. UNCHANGED <<out, held, muxed, sent, writer, encoder, ui>>
      BY ZenonT(60), <1>1 DEF MakesSession, media, locks, past
    <2>2. event' \in Events
      BY Zenon, <1>1 DEF MakesSession, UsesMuxer, OutTypes, Events
    <2> QED BY SMTT(60), <2>1, <2>2 DEF OutTypes
  <1>2. CASE BeginsEvent
    BY <1>2 DEF BeginsEvent, UsesMuxer, media, locks, past, OutTypes, UiPlaces, Flags, Writers,
        Encoders, Events
  <1>3. CASE GoLive
    <2>1. UNCHANGED <<writer, encoder, event>>
      BY <1>3 DEF GoLive, locks
    <2>2. out' \in Flags
      BY Zenon, <1>3 DEF GoLive, NoOutput, OutTypes, Flags
    <2>3. held' \in Seq(Nat)
      BY <1>3 DEF GoLive, NoOutput, OutTypes
    <2>4. muxed' \in Seq(Nat)
      BY <1>3 DEF GoLive, NoOutput, OutTypes
    <2>5. sent' \in Nat
      BY <1>3 DEF GoLive, NoOutput, OutTypes
    <2>6. ui' \in UiPlaces
      BY <1>3 DEF GoLive, NoOutput, OutTypes, UiPlaces
    <2> QED BY <2>1, <2>2, <2>3, <2>4, <2>5, <2>6 DEF OutTypes
  <1>4. CASE StartRuns
    <2>1. UNCHANGED <<held, muxed, sent, encoder, event>>
      BY <1>4 DEF StartRuns, media, past
    <2>2. out' \in Flags
      BY Zenon, <1>4 DEF StartRuns, OutTypes, Flags
    <2>3. writer' \in Writers
      BY <1>4 DEF StartRuns, OutTypes, Writers
    <2>4. ui' \in UiPlaces
      BY <1>4 DEF StartRuns, OutTypes, UiPlaces
    <2> QED BY <2>1, <2>2, <2>3, <2>4 DEF OutTypes
  <1>5. CASE StartCompletes
    BY <1>5 DEF StartCompletes, media, locks, past, OutTypes, UiPlaces, Flags, Writers,
        Encoders, Events
  <1>6. CASE StartCaptures
    BY ZenonT(60), <1>6 DEF StartCaptures, media, locks, OutTypes, UiPlaces, Flags, Writers, Encoders,
        Events
  <1>7. CASE StartAccepts
    BY Zenon, <1>7 DEF StartAccepts, media, past, OutTypes, UiPlaces, Flags, Writers, Encoders, Events
  <1>8. CASE StartRegisters
    BY Zenon, <1>8 DEF StartRegisters, media, locks, past, OutTypes, UiPlaces, Flags, Writers,
        Encoders, Events
  <1>9. CASE StartQuits
    <2>1. UNCHANGED <<out, held, muxed, sent, encoder, event>>
      BY <1>9 DEF StartQuits, media, locks, past
    <2>2. writer' \in Writers
      BY Zenon, <1>9 DEF StartQuits, OutTypes, Writers
    <2>3. ui' \in UiPlaces
      BY <1>9 DEF StartQuits, OutTypes, UiPlaces
    <2> QED BY <2>1, <2>2, <2>3 DEF OutTypes
  <1>10. CASE StartJoins
    BY <1>10 DEF StartJoins, media, past, OutTypes, UiPlaces, Flags, Writers, Encoders, Events
  <1>11. CASE EndPressed
    BY <1>11 DEF EndPressed, media, locks, past, OutTypes, UiPlaces, Flags, Writers, Encoders,
        Events
  <1>12. CASE StopUnregisters
    BY Zenon, <1>12 DEF StopUnregisters, media, locks, past, OutTypes, UiPlaces, Flags, Writers,
        Encoders, Events
  <1>13. CASE StopGates
    BY ZenonT(60), <1>13 DEF StopGates, media, past, OutTypes, UiPlaces, Flags, Writers, Encoders, Events
  <1>14. CASE StopFlushes
    BY <1>14 DEF StopFlushes, NoMuxer, locks, past, OutTypes, UiPlaces, Flags, Writers, Encoders,
        Events
  <1>15. CASE StopShutsWriter
    <2>1. UNCHANGED <<out, held, muxed, sent, encoder, event>>
      BY <1>15 DEF StopShutsWriter, media, locks, past
    <2>2. writer' \in Writers
      BY Zenon, <1>15 DEF StopShutsWriter, OutTypes, Writers
    <2>3. ui' \in UiPlaces
      BY <1>15 DEF StopShutsWriter, OutTypes, UiPlaces
    <2> QED BY <2>1, <2>2, <2>3 DEF OutTypes
  <1>16. CASE StopEnds
    BY Zenon, <1>16 DEF StopEnds, media, locks, past, OutTypes, UiPlaces, Flags, Writers, Encoders,
        Events
  <1>17. CASE StopResets
    BY <1>17 DEF StopResets, media, locks, past, OutTypes, UiPlaces, Flags, Writers, Encoders,
        Events
  <1>18. CASE StopDropsLan
    BY <1>18 DEF StopDropsLan, media, past, OutTypes, UiPlaces, Flags, Writers, Encoders, Events
  <1>19. CASE DestroyFrees
    <2>1. UNCHANGED <<held, muxed, sent, encoder>>
      BY <1>19 DEF DestroyFrees, locks
    <2>2. out' \in Flags
      BY <1>19 DEF DestroyFrees, NoOutput, NoMuxer, OutTypes, Flags
    <2>3. writer' \in Writers
      BY SMTT(60), <1>19 DEF DestroyFrees, NoOutput, NoMuxer, OutTypes, Writers
    <2>4. ui' \in UiPlaces
      BY <1>19 DEF DestroyFrees, NoOutput, NoMuxer, OutTypes, UiPlaces
    <2>5. event' \in Events
      BY <1>19 DEF DestroyFrees, NoOutput, NoMuxer, OutTypes, Events
    <2> QED BY <2>1, <2>2, <2>3, <2>4, <2>5 DEF OutTypes
  <1>20. CASE DestroyStops
    BY Zenon, <1>20 DEF DestroyStops, media, past, OutTypes, UiPlaces, Flags, Writers, Encoders, Events
  <1>21. CASE PacketComes
    BY <1>21 DEF PacketComes, locks, past, OutTypes, UiPlaces, Flags, Writers, Encoders, Events
  <1>22. CASE PacketHeld
    <2>1. UNCHANGED <<muxed, sent, writer, ui, event>>
      BY <1>22 DEF PacketHeld, locks, past
    <2>2. out' \in Flags
      BY Zenon, <1>22 DEF PacketHeld, StopsItself, OutTypes, Flags
    <2>3. held' \in Seq(Nat)
      BY <1>22 DEF PacketHeld, StopsItself, OutTypes, Encoders
    <2>4. encoder' \in Encoders
      BY Zenon, <1>22 DEF PacketHeld, StopsItself, OutTypes, Encoders
    <2> QED BY <2>1, <2>2, <2>3, <2>4 DEF OutTypes
  <1>23. CASE PacketPushed
    <2>1. UNCHANGED <<out, held, sent, writer, ui, event>>
      BY <1>23 DEF PacketPushed
    <2>2. muxed' = muxed \/ muxed' = Append(muxed, encoder.pkt)
      BY <1>23 DEF PacketPushed, MuxerPush
    <2>3. muxed' \in Seq(Nat)
      BY SMTT(60), <2>2 DEF OutTypes, Encoders
    <2>4. encoder' \in Encoders
      BY <1>23 DEF PacketPushed, OutTypes, Encoders
    <2> QED BY <2>1, <2>3, <2>4 DEF OutTypes
  <1>24. CASE WriterFinishesStart
    <2>1. UNCHANGED <<held, muxed, sent, encoder, ui, event>>
      BY <1>24 DEF WriterFinishesStart, media, locks, past
    <2>2. out' \in Flags
      BY ZenonT(60), <1>24 DEF WriterFinishesStart, OutTypes, Flags
    <2>3. writer' \in Writers
      BY Zenon, <1>24 DEF WriterFinishesStart, OutTypes, Writers
    <2> QED BY <2>1, <2>2, <2>3 DEF OutTypes
  <1>25. CASE WriterCannotStart
    <2>1. UNCHANGED <<held, muxed, sent, encoder, ui, event>>
      BY <1>25 DEF WriterCannotStart, media, locks, past
    <2>2. out' \in Flags
      BY Zenon, <1>25 DEF WriterCannotStart, StopsItself, OutTypes, Flags
    <2>3. writer' \in Writers
      BY Zenon, <1>25 DEF WriterCannotStart, StopsItself, OutTypes, Writers
    <2> QED BY <2>1, <2>2, <2>3 DEF OutTypes
  <1>26. CASE WriterTakesHeld
    <2>1. UNCHANGED <<out, muxed, sent, encoder, ui, event>>
      BY <1>26 DEF WriterTakesHeld, locks, past
    <2>2. held' \in Seq(Nat)
      BY <1>26 DEF WriterTakesHeld, OutTypes, Writers
    <2>3. writer' \in Writers
      BY Zenon, <1>26 DEF WriterTakesHeld, OutTypes, Writers
    <2> QED BY <2>1, <2>2, <2>3 DEF OutTypes
  <1>27. CASE WriterChecks
    <2>1. UNCHANGED <<held, muxed, sent, encoder, ui, event>>
      BY <1>27 DEF WriterChecks, media
    <2>2. out' \in Flags
      BY Zenon, <1>27 DEF WriterChecks, OutTypes, Flags
    <2>3. \/ writer' = [writer EXCEPT !.at = "drain"]
          \/ writer' = [writer EXCEPT !.at = "wait", !.take = <<>>]
      BY <1>27 DEF WriterChecks
    <2>4. writer' \in Writers
      <3>1. <<>> \in Seq(Nat) OBVIOUS
      <3>2. CASE writer' = [writer EXCEPT !.at = "drain"] BY Zenon, <3>2 DEF OutTypes, Writers
      <3>3. CASE writer' = [writer EXCEPT !.at = "wait", !.take = <<>>]
        BY Zenon, <3>1, <3>3, TakeTyped DEF OutTypes
      <3> QED BY <2>3, <3>2, <3>3
    <2> QED BY <2>1, <2>2, <2>4 DEF OutTypes
  <1>28. CASE WriterDrains
    <2>1. UNCHANGED <<out, held, sent, encoder, ui, event>>
      BY <1>28 DEF WriterDrains
    <2>2. Head(writer.take) \in Nat /\ Tail(writer.take) \in Seq(Nat)
      BY <1>28 DEF WriterDrains, OutTypes, Writers
    <2>3. muxed' = muxed \/ muxed' = Append(muxed, Head(writer.take))
      BY <1>28 DEF WriterDrains, MuxerPush
    <2>4. muxed' \in Seq(Nat)
      BY Zenon, <2>2, <2>3, AppendTyped DEF OutTypes
    <2>5. \/ writer' = [writer EXCEPT !.take = Tail(writer.take)]
          \/ writer' = [writer EXCEPT !.take = <<>>]
      BY <1>28 DEF WriterDrains
    <2>6. writer' \in Writers
      <3>1. <<>> \in Seq(Nat) OBVIOUS
      <3> QED BY Zenon, <2>2, <2>5, <3>1, TakeTyped DEF OutTypes
    <2> QED BY <2>1, <2>4, <2>6 DEF OutTypes
  <1>29. CASE WriterOpens
    <2>1. UNCHANGED <<held, muxed, sent, encoder, ui, event>>
      BY <1>29 DEF WriterOpens, media, locks, past
    <2>2. out' \in Flags
      BY Zenon, <1>29 DEF WriterOpens, OutTypes, Flags
    <2>3. writer' \in Writers
      BY Zenon, <1>29 DEF WriterOpens, OutTypes, Writers
    <2> QED BY <2>1, <2>2, <2>3 DEF OutTypes
  <1>30. CASE WriterGoes
    <2>1. UNCHANGED <<out, held, muxed, sent, encoder, ui, event>>
      BY <1>30 DEF WriterGoes, media, locks, past
    <2>2. writer' \in Writers
      BY Zenon, <1>30 DEF WriterGoes, OutTypes, Writers
    <2> QED BY <2>1, <2>2 DEF OutTypes
  <1>31. CASE BuildsMuxer \/ RemakesMuxer \/ HearsFragments \/ WriterSpools \/
            ReaderEnters \/ ReaderLeaves \/ CueComes
    BY <1>31 DEF BuildsMuxer, RemakesMuxer, HearsFragments, WriterSpools, ReaderEnters,
        ReaderLeaves, CueComes, locks, media, past, OutTypes, UiPlaces, Flags, Writers,
        Encoders, Events
  <1>32. CASE CueFindsSession \/ CueAnswered
    BY <1>32 DEF CueFindsSession, CueAnswered, locks, media, past, OutTypes, UiPlaces, Flags,
        Writers, Encoders, Events
  <1> QED
    BY <1>1, <1>2, <1>3, <1>4, <1>5, <1>6, <1>7, <1>8, <1>9, <1>10, <1>11, <1>12, <1>13,
       <1>14, <1>15, <1>16, <1>17, <1>18, <1>19, <1>20, <1>21, <1>22, <1>23, <1>24,
       <1>25, <1>26, <1>27, <1>28, <1>29, <1>30, <1>31, <1>32
       DEF OutputNext, UiStep, WriterStep, CompleteStart

\* The gate: a deferred start is finished once, and lets nothing by before.
LEMMA GateKept ==
    ASSUME OutTypes, Gate, Stages, OutputNext
    PROVE  Gate'
PROOF
  <1>1. CASE GoLive
    BY <1>1 DEF GoLive, NoOutput, locks, OutTypes, UiPlaces, Flags, Writers, Encoders, Events,
        Gate, Completing, Stages, Under
  <1>2. CASE StartRuns
    BY <1>2 DEF StartRuns, media, past, OutTypes, UiPlaces, Flags, Writers, Encoders, Events,
        Gate, Completing, Stages, Under
  <1>3. CASE StartCompletes
    BY <1>3 DEF StartCompletes, media, locks, past, OutTypes, UiPlaces, Flags, Writers,
        Encoders, Events, Gate, Completing, Stages, Under
  <1>4. CASE StartCaptures
    BY ZenonT(60), <1>4 DEF StartCaptures, media, locks, OutTypes, UiPlaces, Flags, Writers, Encoders,
        Events, Gate, Completing, Stages, Under
  <1>5. CASE StartAccepts
    BY <1>5 DEF StartAccepts, media, past, OutTypes, UiPlaces, Flags, Writers, Encoders, Events,
        Gate, Completing, Stages, Under
  <1>6. CASE StartRegisters
    BY <1>6 DEF StartRegisters, media, locks, past, OutTypes, UiPlaces, Flags, Writers,
        Encoders, Events, Gate, Completing, Stages, Under
  <1>7. CASE StartQuits
    BY <1>7 DEF StartQuits, media, locks, past, OutTypes, UiPlaces, Flags, Writers, Encoders,
        Events, Gate, Completing, Stages, Under
  <1>8. CASE StartJoins
    BY <1>8 DEF StartJoins, media, past, OutTypes, UiPlaces, Flags, Writers, Encoders, Events,
        Gate, Completing, Stages, Under
  <1>9. CASE EndPressed
    BY <1>9 DEF EndPressed, media, locks, past, OutTypes, UiPlaces, Flags, Writers, Encoders,
        Events, Gate, Completing, Stages, Under
  <1>10. CASE StopUnregisters
    BY <1>10 DEF StopUnregisters, media, locks, past, OutTypes, UiPlaces, Flags, Writers,
        Encoders, Events, Gate, Completing, Stages, Under
  <1>11. CASE StopGates
    BY <1>11 DEF StopGates, media, past, OutTypes, UiPlaces, Flags, Writers, Encoders, Events,
        Gate, Completing, Stages, Under
  <1>12. CASE StopFlushes
    BY <1>12 DEF StopFlushes, NoMuxer, locks, past, OutTypes, UiPlaces, Flags, Writers, Encoders,
        Events, Gate, Completing, Stages, Under
  <1>13. CASE StopShutsWriter
    BY <1>13 DEF StopShutsWriter, media, locks, past, OutTypes, UiPlaces, Flags, Writers,
        Encoders, Events, Gate, Completing, Stages, Under
  <1>14. CASE StopEnds
    BY <1>14 DEF StopEnds, media, locks, past, OutTypes, UiPlaces, Flags, Writers, Encoders,
        Events, Gate, Completing, Stages, Under
  <1>15. CASE StopResets
    BY <1>15 DEF StopResets, media, locks, past, OutTypes, UiPlaces, Flags, Writers, Encoders,
        Events, Gate, Completing, Stages, Under
  <1>16. CASE StopDropsLan
    BY <1>16 DEF StopDropsLan, media, past, OutTypes, UiPlaces, Flags, Writers, Encoders, Events,
        Gate, Completing, Stages, Under
  <1>17. CASE DestroyFrees
    BY <1>17 DEF DestroyFrees, NoOutput, NoMuxer, locks, OutTypes, UiPlaces, Flags, Writers,
        Encoders, Events, Gate, Completing, Stages, Under
  <1>18. CASE DestroyStops
    BY <1>18 DEF DestroyStops, media, past, OutTypes, UiPlaces, Flags, Writers, Encoders, Events,
        Gate, Completing, Stages, Under
  <1>19. CASE PacketComes
    BY <1>19 DEF PacketComes, locks, past, OutTypes, UiPlaces, Flags, Writers, Encoders, Events,
        Gate, Completing, Stages, Under
  <1>20. CASE PacketHeld
    BY ZenonT(60), <1>20 DEF PacketHeld, StopsItself, locks, past, OutTypes, UiPlaces, Flags, Writers,
        Encoders, Events, Gate, Completing, Stages, Under
  <1>21. CASE PacketPushed
    BY <1>21 DEF PacketPushed, MuxerPush, locks, past, OutTypes, UiPlaces, Flags, Writers,
        Encoders, Events, Gate, Completing, Stages, Under
  <1>22. CASE WriterFinishesStart
    BY ZenonT(60), <1>22 DEF WriterFinishesStart, media, locks, past, OutTypes, UiPlaces, Flags, Writers,
        Encoders, Events, Gate, Completing, Stages, Under
  <1>23. CASE WriterCannotStart
    BY <1>23 DEF WriterCannotStart, StopsItself, media, locks, past, OutTypes, UiPlaces, Flags,
        Writers, Encoders, Events, Gate, Completing, Stages, Under
  <1>24. CASE WriterTakesHeld
    BY <1>24 DEF WriterTakesHeld, locks, past, OutTypes, UiPlaces, Flags, Writers, Encoders,
        Events, Gate, Completing, Stages, Under
  <1>25. CASE WriterChecks
    <2>1. writer'.at \in {"drain", "wait"} /\ UNCHANGED <<encoder, ui, muxed, held>>
      BY Zenon, <1>25 DEF WriterChecks, media, OutTypes, Writers
    <2>2. \/ out' = out
          \/ out' = [out EXCEPT !.deferred = FALSE] /\ writer'.at = "wait"
      BY Zenon, <1>25 DEF WriterChecks, OutTypes, Writers
    <2> QED BY SMTT(60), <1>25, <2>1, <2>2 DEF WriterChecks, OutTypes, Flags, Gate, Completing
  <1>26. CASE WriterDrains
    BY <1>26 DEF WriterDrains, MuxerPush, locks, past, OutTypes, UiPlaces, Flags, Writers,
        Encoders, Events, Gate, Completing, Stages, Under
  <1>27. CASE WriterOpens
    BY <1>27 DEF WriterOpens, media, locks, past, OutTypes, UiPlaces, Flags, Writers, Encoders,
        Events, Gate, Completing, Stages, Under
  <1>28. CASE WriterGoes
    BY <1>28 DEF WriterGoes, media, locks, past, OutTypes, UiPlaces, Flags, Writers, Encoders,
        Events, Gate, Completing, Stages, Under
  <1>29. CASE BuildsMuxer \/ MakesSession \/ RemakesMuxer \/ BeginsEvent \/ HearsFragments
            \/ WriterSpools \/ ReaderEnters
    BY Zenon, <1>29 DEF BuildsMuxer, MakesSession, RemakesMuxer, BeginsEvent, HearsFragments,
        WriterSpools, ReaderEnters, locks, media, past, Gate, Completing
  <1>30. CASE ReaderLeaves \/ CueComes \/ CueFindsSession \/ CueAnswered
    BY <1>30 DEF ReaderLeaves, CueComes, CueFindsSession, CueAnswered, locks, media, past, Gate,
        Completing
  <1> QED
    BY <1>1, <1>2, <1>3, <1>4, <1>5, <1>6, <1>7, <1>8, <1>9, <1>10, <1>11, <1>12, <1>13,
       <1>14, <1>15, <1>16, <1>17, <1>18, <1>19, <1>20, <1>21, <1>22, <1>23, <1>24,
       <1>25, <1>26, <1>27, <1>28, <1>29, <1>30
       DEF OutputNext, UiStep, WriterStep, CompleteStart

\* The stages of the start and of the stop.
LEMMA StagesKept ==
    ASSUME OutTypes, Gate, Stages, OutputNext
    PROVE  Stages'
PROOF
  <1>1. CASE BuildsMuxer
    BY SMTT(60), <1>1 DEF BuildsMuxer, NoMuxer, locks, past, OutTypes, UiPlaces, Flags, Writers, Encoders,
        Events, Gate, Completing, Stages, Under
  <1>2. CASE MakesSession
    BY Zenon, <1>2 DEF MakesSession, UsesMuxer, media, locks, past, OutTypes, UiPlaces, Flags, Writers,
        Encoders, Events, Gate, Completing, Stages, Under
  <1>3. CASE RemakesMuxer
    BY <1>3 DEF RemakesMuxer, NoMuxer, locks, past, OutTypes, UiPlaces, Flags, Writers,
        Encoders, Events, Gate, Completing, Stages, Under
  <1>4. CASE BeginsEvent
    BY <1>4 DEF BeginsEvent, UsesMuxer, media, locks, past, OutTypes, UiPlaces, Flags, Writers,
        Encoders, Events, Gate, Completing, Stages, Under
  <1>5. CASE HearsFragments
    BY <1>5 DEF HearsFragments, UsesMuxer, locks, past, OutTypes, UiPlaces, Flags, Writers,
        Encoders, Events, Gate, Completing, Stages, Under
  <1>6. CASE GoLive
    BY <1>6 DEF GoLive, NoOutput, locks, OutTypes, UiPlaces, Flags, Writers, Encoders, Events,
        Gate, Completing, Stages, Under
  <1>7. CASE StartRuns
    BY <1>7 DEF StartRuns, media, past, OutTypes, UiPlaces, Flags, Writers, Encoders, Events,
        Gate, Completing, Stages, Under
  <1>8. CASE StartCompletes
    BY <1>8 DEF StartCompletes, media, locks, past, OutTypes, UiPlaces, Flags, Writers,
        Encoders, Events, Gate, Completing, Stages, Under
  <1>9. CASE StartCaptures
    BY ZenonT(60), <1>9 DEF StartCaptures, media, locks, OutTypes, UiPlaces, Flags, Writers, Encoders,
        Events, Gate, Completing, Stages, Under
  <1>10. CASE StartAccepts
    BY <1>10 DEF StartAccepts, media, past, OutTypes, UiPlaces, Flags, Writers, Encoders, Events,
        Gate, Completing, Stages, Under
  <1>11. CASE StartRegisters
    BY <1>11 DEF StartRegisters, media, locks, past, OutTypes, UiPlaces, Flags, Writers,
        Encoders, Events, Gate, Completing, Stages, Under
  <1>12. CASE StartQuits
    BY <1>12 DEF StartQuits, media, locks, past, OutTypes, UiPlaces, Flags, Writers, Encoders,
        Events, Gate, Completing, Stages, Under
  <1>13. CASE StartJoins
    BY <1>13 DEF StartJoins, media, past, OutTypes, UiPlaces, Flags, Writers, Encoders, Events,
        Gate, Completing, Stages, Under
  <1>14. CASE EndPressed
    BY <1>14 DEF EndPressed, media, locks, past, OutTypes, UiPlaces, Flags, Writers, Encoders,
        Events, Gate, Completing, Stages, Under
  <1>15. CASE StopUnregisters
    BY <1>15 DEF StopUnregisters, media, locks, past, OutTypes, UiPlaces, Flags, Writers,
        Encoders, Events, Gate, Completing, Stages, Under
  <1>16. CASE StopGates
    BY <1>16 DEF StopGates, media, past, OutTypes, UiPlaces, Flags, Writers, Encoders, Events,
        Gate, Completing, Stages, Under
  <1>17. CASE StopFlushes
    BY <1>17 DEF StopFlushes, NoMuxer, locks, past, OutTypes, UiPlaces, Flags, Writers, Encoders,
        Events, Gate, Completing, Stages, Under
  <1>18. CASE StopShutsWriter
    BY <1>18 DEF StopShutsWriter, media, locks, past, OutTypes, UiPlaces, Flags, Writers,
        Encoders, Events, Gate, Completing, Stages, Under
  <1>19. CASE StopEnds
    BY <1>19 DEF StopEnds, media, locks, past, OutTypes, UiPlaces, Flags, Writers, Encoders,
        Events, Gate, Completing, Stages, Under
  <1>20. CASE StopResets
    BY <1>20 DEF StopResets, media, locks, past, OutTypes, UiPlaces, Flags, Writers, Encoders,
        Events, Gate, Completing, Stages, Under
  <1>21. CASE StopDropsLan
    BY <1>21 DEF StopDropsLan, media, past, OutTypes, UiPlaces, Flags, Writers, Encoders, Events,
        Gate, Completing, Stages, Under
  <1>22. CASE DestroyFrees
    BY <1>22 DEF DestroyFrees, NoOutput, NoMuxer, locks, OutTypes, UiPlaces, Flags, Writers,
        Encoders, Events, Gate, Completing, Stages, Under
  <1>23. CASE DestroyStops
    BY <1>23 DEF DestroyStops, media, past, OutTypes, UiPlaces, Flags, Writers, Encoders, Events,
        Gate, Completing, Stages, Under
  <1>24. CASE PacketHeld
    BY ZenonT(60), <1>24 DEF PacketHeld, StopsItself, locks, past, OutTypes, UiPlaces, Flags, Writers,
        Encoders, Events, Gate, Completing, Stages, Under
  <1>25. CASE WriterFinishesStart
    BY ZenonT(60), <1>25 DEF WriterFinishesStart, media, locks, past, OutTypes, UiPlaces, Flags, Writers,
        Encoders, Events, Gate, Completing, Stages, Under
  <1>26. CASE WriterCannotStart
    BY <1>26 DEF WriterCannotStart, StopsItself, media, locks, past, OutTypes, UiPlaces, Flags,
        Writers, Encoders, Events, Gate, Completing, Stages, Under
  <1>27. CASE WriterTakesHeld
    BY <1>27 DEF WriterTakesHeld, locks, past, OutTypes, UiPlaces, Flags, Writers, Encoders,
        Events, Gate, Completing, Stages, Under
  <1>28. CASE WriterChecks
    BY ZenonT(60), <1>28 DEF WriterChecks, media, locks, past, OutTypes, UiPlaces, Flags, Writers, Encoders,
        Events, Gate, Completing, Stages, Under
  <1>29. CASE WriterDrains
    BY ZenonT(60), <1>29 DEF WriterDrains, MuxerPush, locks, past, OutTypes, UiPlaces, Flags, Writers,
        Encoders, Events, Gate, Completing, Stages, Under
  <1>30. CASE WriterOpens
    BY <1>30 DEF WriterOpens, media, locks, past, OutTypes, UiPlaces, Flags, Writers, Encoders,
        Events, Gate, Completing, Stages, Under
  <1>31. CASE WriterGoes
    BY <1>31 DEF WriterGoes, media, locks, past, OutTypes, UiPlaces, Flags, Writers, Encoders,
        Events, Gate, Completing, Stages, Under
  <1>32. CASE PacketComes \/ PacketPushed \/ WriterSpools \/ ReaderEnters \/ ReaderLeaves
            \/ CueComes \/ CueFindsSession
    BY <1>32 DEF PacketComes, PacketPushed, WriterSpools, ReaderEnters, ReaderLeaves, CueComes,
        CueFindsSession, locks, media, past, Stages, Completing, Under
  <1>33. CASE CueAnswered
    BY <1>33 DEF CueAnswered, locks, media, past, Stages, Completing, Under
  <1> QED
    BY SMTT(60), <1>1, <1>2, <1>3, <1>4, <1>5, <1>6, <1>7, <1>8, <1>9, <1>10, <1>11, <1>12, <1>13,
       <1>14, <1>15, <1>16, <1>17, <1>18, <1>19, <1>20, <1>21, <1>22, <1>23, <1>24,
       <1>25, <1>26, <1>27, <1>28, <1>29, <1>30, <1>31, <1>32, <1>33
       DEF OutputNext, UiStep, WriterStep, CompleteStart

\* Where the event may be live.
LEMMA LivesKept ==
    ASSUME OutTypes, Gate, Stages, Lives, OutputNext
    PROVE  Lives'
PROOF
  <1>1. CASE BuildsMuxer
    BY SMTT(60), <1>1 DEF BuildsMuxer, NoMuxer, locks, past, OutTypes, UiPlaces, Flags, Writers, Encoders,
        Events, Gate, Completing, Stages, Under, Lives
  <1>2. CASE MakesSession
    BY Zenon, <1>2 DEF MakesSession, UsesMuxer, media, locks, past, OutTypes, UiPlaces, Flags, Writers,
        Encoders, Events, Gate, Completing, Stages, Under, Lives
  <1>3. CASE RemakesMuxer
    BY <1>3 DEF RemakesMuxer, NoMuxer, locks, past, OutTypes, UiPlaces, Flags, Writers,
        Encoders, Events, Gate, Completing, Stages, Under, Lives
  <1>4. CASE BeginsEvent
    BY <1>4 DEF BeginsEvent, UsesMuxer, media, locks, past, OutTypes, UiPlaces, Flags, Writers,
        Encoders, Events, Gate, Completing, Stages, Under, Lives
  <1>5. CASE HearsFragments
    BY <1>5 DEF HearsFragments, UsesMuxer, locks, past, OutTypes, UiPlaces, Flags, Writers,
        Encoders, Events, Gate, Completing, Stages, Under, Lives
  <1>6. CASE GoLive
    BY <1>6 DEF GoLive, NoOutput, locks, OutTypes, UiPlaces, Flags, Writers, Encoders, Events,
        Gate, Completing, Stages, Under, Lives
  <1>7. CASE StartRuns
    BY <1>7 DEF StartRuns, media, past, OutTypes, UiPlaces, Flags, Writers, Encoders, Events,
        Gate, Completing, Stages, Under, Lives
  <1>8. CASE StartCompletes
    BY <1>8 DEF StartCompletes, media, locks, past, OutTypes, UiPlaces, Flags, Writers,
        Encoders, Events, Gate, Completing, Stages, Under, Lives
  <1>9. CASE StartCaptures
    BY Zenon, <1>9 DEF StartCaptures, media, locks, OutTypes, UiPlaces, Flags, Writers, Encoders,
        Events, Gate, Completing, Stages, Under, Lives
  <1>10. CASE StartAccepts
    BY <1>10 DEF StartAccepts, media, past, OutTypes, UiPlaces, Flags, Writers, Encoders, Events,
        Gate, Completing, Stages, Under, Lives
  <1>11. CASE StartRegisters
    BY <1>11 DEF StartRegisters, media, locks, past, OutTypes, UiPlaces, Flags, Writers,
        Encoders, Events, Gate, Completing, Stages, Under, Lives
  <1>12. CASE StartQuits
    BY <1>12 DEF StartQuits, media, locks, past, OutTypes, UiPlaces, Flags, Writers, Encoders,
        Events, Gate, Completing, Stages, Under, Lives
  <1>13. CASE StartJoins
    BY <1>13 DEF StartJoins, media, past, OutTypes, UiPlaces, Flags, Writers, Encoders, Events,
        Gate, Completing, Stages, Under, Lives
  <1>14. CASE EndPressed
    BY <1>14 DEF EndPressed, media, locks, past, OutTypes, UiPlaces, Flags, Writers, Encoders,
        Events, Gate, Completing, Stages, Under, Lives
  <1>15. CASE StopUnregisters
    BY <1>15 DEF StopUnregisters, media, locks, past, OutTypes, UiPlaces, Flags, Writers,
        Encoders, Events, Gate, Completing, Stages, Under, Lives
  <1>16. CASE StopGates
    BY <1>16 DEF StopGates, media, past, OutTypes, UiPlaces, Flags, Writers, Encoders, Events,
        Gate, Completing, Stages, Under, Lives
  <1>17. CASE StopFlushes
    BY <1>17 DEF StopFlushes, NoMuxer, locks, past, OutTypes, UiPlaces, Flags, Writers, Encoders,
        Events, Gate, Completing, Stages, Under, Lives
  <1>18. CASE StopShutsWriter
    BY <1>18 DEF StopShutsWriter, media, locks, past, OutTypes, UiPlaces, Flags, Writers,
        Encoders, Events, Gate, Completing, Stages, Under, Lives
  <1>19. CASE StopEnds
    BY <1>19 DEF StopEnds, media, locks, past, OutTypes, UiPlaces, Flags, Writers, Encoders,
        Events, Gate, Completing, Stages, Under, Lives
  <1>20. CASE StopResets
    BY <1>20 DEF StopResets, media, locks, past, OutTypes, UiPlaces, Flags, Writers, Encoders,
        Events, Gate, Completing, Stages, Under, Lives
  <1>21. CASE StopDropsLan
    BY <1>21 DEF StopDropsLan, media, past, OutTypes, UiPlaces, Flags, Writers, Encoders, Events,
        Gate, Completing, Stages, Under, Lives
  <1>22. CASE DestroyFrees
    BY <1>22 DEF DestroyFrees, NoOutput, NoMuxer, locks, OutTypes, UiPlaces, Flags, Writers,
        Encoders, Events, Gate, Completing, Stages, Under, Lives
  <1>23. CASE DestroyStops
    BY <1>23 DEF DestroyStops, media, past, OutTypes, UiPlaces, Flags, Writers, Encoders, Events,
        Gate, Completing, Stages, Under, Lives
  <1>24. CASE PacketHeld
    BY ZenonT(60), <1>24 DEF PacketHeld, StopsItself, locks, past, OutTypes, UiPlaces, Flags, Writers,
        Encoders, Events, Gate, Completing, Stages, Under, Lives
  <1>25. CASE WriterFinishesStart
    BY ZenonT(60), <1>25 DEF WriterFinishesStart, media, locks, past, OutTypes, UiPlaces, Flags, Writers,
        Encoders, Events, Gate, Completing, Stages, Under, Lives
  <1>26. CASE WriterCannotStart
    BY <1>26 DEF WriterCannotStart, StopsItself, media, locks, past, OutTypes, UiPlaces, Flags,
        Writers, Encoders, Events, Gate, Completing, Stages, Under, Lives
  <1>27. CASE WriterChecks
    BY ZenonT(60), <1>27 DEF WriterChecks, media, locks, past, OutTypes, UiPlaces, Flags, Writers, Encoders,
        Events, Gate, Completing, Stages, Under, Lives
  <1>28. CASE WriterOpens
    BY <1>28 DEF WriterOpens, media, locks, past, OutTypes, UiPlaces, Flags, Writers, Encoders,
        Events, Gate, Completing, Stages, Under, Lives
  <1>29. CASE PacketComes \/ PacketPushed \/ WriterTakesHeld \/ WriterDrains \/
            WriterSpools \/ WriterGoes \/ ReaderEnters
    BY <1>29 DEF PacketComes, PacketPushed, WriterTakesHeld, WriterDrains, WriterSpools,
        WriterGoes, ReaderEnters, locks, media, past, Lives, Under
  <1>30. CASE ReaderLeaves \/ CueComes \/ CueFindsSession \/ CueAnswered
    BY <1>30 DEF ReaderLeaves, CueComes, CueFindsSession, CueAnswered, locks, media, past, Lives,
        Under
  <1> QED
    BY <1>1, <1>2, <1>3, <1>4, <1>5, <1>6, <1>7, <1>8, <1>9, <1>10, <1>11, <1>12, <1>13,
       <1>14, <1>15, <1>16, <1>17, <1>18, <1>19, <1>20, <1>21, <1>22, <1>23, <1>24,
       <1>25, <1>26, <1>27, <1>28, <1>29, <1>30
       DEF OutputNext, UiStep, WriterStep, CompleteStart

\* Nothing is given out behind the writer's back.
LEMMA SpoolKept ==
    ASSUME OutTypes, Gate, Stages, Spool, OutputNext
    PROVE  Spool'
PROOF
  <1>1. CASE BuildsMuxer
    BY <1>1 DEF BuildsMuxer, NoMuxer, locks, past, OutTypes, UiPlaces, Flags, Writers, Encoders,
        Events, Gate, Completing, Stages, Under, Spool
  <1>2. CASE MakesSession
    BY Zenon, <1>2 DEF MakesSession, UsesMuxer, media, locks, past, OutTypes, UiPlaces, Flags, Writers,
        Encoders, Events, Gate, Completing, Stages, Under, Spool
  <1>3. CASE RemakesMuxer
    BY <1>3 DEF RemakesMuxer, NoMuxer, locks, past, OutTypes, UiPlaces, Flags, Writers,
        Encoders, Events, Gate, Completing, Stages, Under, Spool
  <1>4. CASE BeginsEvent
    BY <1>4 DEF BeginsEvent, UsesMuxer, media, locks, past, OutTypes, UiPlaces, Flags, Writers,
        Encoders, Events, Gate, Completing, Stages, Under, Spool
  <1>5. CASE HearsFragments
    BY <1>5 DEF HearsFragments, UsesMuxer, locks, past, OutTypes, UiPlaces, Flags, Writers,
        Encoders, Events, Gate, Completing, Stages, Under, Spool
  <1>6. CASE GoLive
    BY <1>6 DEF GoLive, NoOutput, locks, OutTypes, UiPlaces, Flags, Writers, Encoders, Events,
        Gate, Completing, Stages, Under, Spool
  <1>7. CASE StartRuns
    BY <1>7 DEF StartRuns, media, past, OutTypes, UiPlaces, Flags, Writers, Encoders, Events,
        Gate, Completing, Stages, Under, Spool
  <1>8. CASE StartCompletes
    BY <1>8 DEF StartCompletes, media, locks, past, OutTypes, UiPlaces, Flags, Writers,
        Encoders, Events, Gate, Completing, Stages, Under, Spool
  <1>9. CASE StartCaptures
    BY <1>9 DEF StartCaptures, media, locks, OutTypes, UiPlaces, Flags, Writers, Encoders,
        Events, Gate, Completing, Stages, Under, Spool
  <1>10. CASE StartAccepts
    BY <1>10 DEF StartAccepts, media, past, OutTypes, UiPlaces, Flags, Writers, Encoders, Events,
        Gate, Completing, Stages, Under, Spool
  <1>11. CASE StartRegisters
    BY <1>11 DEF StartRegisters, media, locks, past, OutTypes, UiPlaces, Flags, Writers,
        Encoders, Events, Gate, Completing, Stages, Under, Spool
  <1>12. CASE StartQuits
    BY <1>12 DEF StartQuits, media, locks, past, OutTypes, UiPlaces, Flags, Writers, Encoders,
        Events, Gate, Completing, Stages, Under, Spool
  <1>13. CASE StartJoins
    BY <1>13 DEF StartJoins, media, past, OutTypes, UiPlaces, Flags, Writers, Encoders, Events,
        Gate, Completing, Stages, Under, Spool
  <1>14. CASE EndPressed
    BY <1>14 DEF EndPressed, media, locks, past, OutTypes, UiPlaces, Flags, Writers, Encoders,
        Events, Gate, Completing, Stages, Under, Spool
  <1>15. CASE StopUnregisters
    BY <1>15 DEF StopUnregisters, media, locks, past, OutTypes, UiPlaces, Flags, Writers,
        Encoders, Events, Gate, Completing, Stages, Under, Spool
  <1>16. CASE StopGates
    BY <1>16 DEF StopGates, media, past, OutTypes, UiPlaces, Flags, Writers, Encoders, Events,
        Gate, Completing, Stages, Under, Spool
  <1>17. CASE StopFlushes
    BY <1>17 DEF StopFlushes, NoMuxer, locks, past, OutTypes, UiPlaces, Flags, Writers, Encoders,
        Events, Gate, Completing, Stages, Under, Spool
  <1>18. CASE StopShutsWriter
    BY <1>18 DEF StopShutsWriter, media, locks, past, OutTypes, UiPlaces, Flags, Writers,
        Encoders, Events, Gate, Completing, Stages, Under, Spool
  <1>19. CASE StopEnds
    BY <1>19 DEF StopEnds, media, locks, past, OutTypes, UiPlaces, Flags, Writers, Encoders,
        Events, Gate, Completing, Stages, Under, Spool
  <1>20. CASE StopResets
    BY <1>20 DEF StopResets, media, locks, past, OutTypes, UiPlaces, Flags, Writers, Encoders,
        Events, Gate, Completing, Stages, Under, Spool
  <1>21. CASE StopDropsLan
    BY <1>21 DEF StopDropsLan, media, past, OutTypes, UiPlaces, Flags, Writers, Encoders, Events,
        Gate, Completing, Stages, Under, Spool
  <1>22. CASE DestroyFrees
    BY <1>22 DEF DestroyFrees, NoOutput, NoMuxer, locks, OutTypes, UiPlaces, Flags, Writers,
        Encoders, Events, Gate, Completing, Stages, Under, Spool
  <1>23. CASE DestroyStops
    BY <1>23 DEF DestroyStops, media, past, OutTypes, UiPlaces, Flags, Writers, Encoders, Events,
        Gate, Completing, Stages, Under, Spool
  <1>24. CASE PacketComes
    BY <1>24 DEF PacketComes, locks, past, OutTypes, UiPlaces, Flags, Writers, Encoders, Events,
        Gate, Completing, Stages, Under, Spool
  <1>25. CASE PacketHeld
    BY <1>25 DEF PacketHeld, StopsItself, locks, past, OutTypes, UiPlaces, Flags, Writers,
        Encoders, Events, Gate, Completing, Stages, Under, Spool
  <1>26. CASE PacketPushed
    BY <1>26 DEF PacketPushed, MuxerPush, locks, past, OutTypes, UiPlaces, Flags, Writers,
        Encoders, Events, Gate, Completing, Stages, Under, Spool
  <1>27. CASE WriterFinishesStart
    BY <1>27 DEF WriterFinishesStart, media, locks, past, OutTypes, UiPlaces, Flags, Writers,
        Encoders, Events, Gate, Completing, Stages, Under, Spool
  <1>28. CASE WriterCannotStart
    BY <1>28 DEF WriterCannotStart, StopsItself, media, locks, past, OutTypes, UiPlaces, Flags,
        Writers, Encoders, Events, Gate, Completing, Stages, Under, Spool
  <1>29. CASE WriterTakesHeld
    BY <1>29 DEF WriterTakesHeld, locks, past, OutTypes, UiPlaces, Flags, Writers, Encoders,
        Events, Gate, Completing, Stages, Under, Spool
  <1>30. CASE WriterChecks
    BY Zenon, <1>30 DEF WriterChecks, media, locks, past, OutTypes, UiPlaces, Flags, Writers, Encoders,
        Events, Gate, Completing, Stages, Under, Spool
  <1>31. CASE WriterDrains
    BY Zenon, <1>31 DEF WriterDrains, MuxerPush, locks, past, OutTypes, UiPlaces, Flags, Writers,
        Encoders, Events, Gate, Completing, Stages, Under, Spool
  <1>32. CASE WriterOpens
    BY <1>32 DEF WriterOpens, media, locks, past, OutTypes, UiPlaces, Flags, Writers, Encoders,
        Events, Gate, Completing, Stages, Under, Spool
  <1>33. CASE WriterSpools
    BY <1>33 DEF WriterSpools, locks, past, OutTypes, UiPlaces, Flags, Writers, Encoders, Events,
        Gate, Completing, Stages, Under, Spool
  <1>34. CASE WriterGoes
    BY <1>34 DEF WriterGoes, media, locks, past, OutTypes, UiPlaces, Flags, Writers, Encoders,
        Events, Gate, Completing, Stages, Under, Spool
  <1>35. CASE ReaderEnters \/ ReaderLeaves \/ CueComes \/ CueFindsSession \/ CueAnswered
    BY <1>35 DEF ReaderEnters, ReaderLeaves, CueComes, CueFindsSession, CueAnswered, locks,
        media, past, Spool
  <1> QED
    BY <1>1, <1>2, <1>3, <1>4, <1>5, <1>6, <1>7, <1>8, <1>9, <1>10, <1>11, <1>12, <1>13,
       <1>14, <1>15, <1>16, <1>17, <1>18, <1>19, <1>20, <1>21, <1>22, <1>23, <1>24,
       <1>25, <1>26, <1>27, <1>28, <1>29, <1>30, <1>31, <1>32, <1>33, <1>34, <1>35
       DEF OutputNext, UiStep, WriterStep, CompleteStart

\* The order of the packets.
LEMMA OrderKept ==
    ASSUME OutTypes, Gate, Order, OutputNext
    PROVE  Order'
PROOF
  <1>1. CASE GoLive
    BY <1>1 DEF GoLive, NoOutput, locks, OutTypes, UiPlaces, Flags, Writers, Encoders, Events,
        Gate, Order, Ascends, Below, Upto, Before, Completing
  <1>2. CASE StartRuns
    BY <1>2 DEF StartRuns, media, past, OutTypes, UiPlaces, Flags, Writers, Encoders, Events,
        Gate, Order, Ascends, Below, Upto, Before, Completing
  <1>3. CASE StartCaptures
    BY ZenonT(60), <1>3 DEF StartCaptures, media, locks, OutTypes, UiPlaces, Flags, Writers, Encoders,
        Events, Gate, Order, Ascends, Below, Upto, Before, Completing
  <1>4. CASE StartAccepts
    BY <1>4 DEF StartAccepts, media, past, OutTypes, UiPlaces, Flags, Writers, Encoders, Events,
        Gate, Order, Ascends, Below, Upto, Before, Completing
  <1>5. CASE StartRegisters
    BY <1>5 DEF StartRegisters, media, locks, past, OutTypes, UiPlaces, Flags, Writers,
        Encoders, Events, Gate, Order, Ascends, Below, Upto, Before, Completing
  <1>6. CASE StartQuits
    BY <1>6 DEF StartQuits, media, locks, past, OutTypes, UiPlaces, Flags, Writers, Encoders,
        Events, Gate, Order, Ascends, Below, Upto, Before, Completing
  <1>7. CASE StopUnregisters
    BY <1>7 DEF StopUnregisters, media, locks, past, OutTypes, UiPlaces, Flags, Writers,
        Encoders, Events, Gate, Order, Ascends, Below, Upto, Before, Completing
  <1>8. CASE StopGates
    BY <1>8 DEF StopGates, media, past, OutTypes, UiPlaces, Flags, Writers, Encoders, Events,
        Gate, Order, Ascends, Below, Upto, Before, Completing
  <1>9. CASE StopShutsWriter
    BY <1>9 DEF StopShutsWriter, media, locks, past, OutTypes, UiPlaces, Flags, Writers,
        Encoders, Events, Gate, Order, Ascends, Below, Upto, Before, Completing
  <1>10. CASE StopEnds
    BY <1>10 DEF StopEnds, media, locks, past, OutTypes, UiPlaces, Flags, Writers, Encoders,
        Events, Gate, Order, Ascends, Below, Upto, Before, Completing
  <1>11. CASE DestroyFrees
    BY <1>11 DEF DestroyFrees, NoOutput, NoMuxer, locks, OutTypes, UiPlaces, Flags, Writers,
        Encoders, Events, Gate, Order, Ascends, Below, Upto, Before, Completing
  <1>12. CASE DestroyStops
    BY <1>12 DEF DestroyStops, media, past, OutTypes, UiPlaces, Flags, Writers, Encoders, Events,
        Gate, Order, Ascends, Below, Upto, Before, Completing
  <1>13. CASE PacketComes
    <2>1. /\ sent' = sent + 1 /\ encoder'.pkt = sent + 1
          /\ UNCHANGED <<out, held, muxed, writer>>
      BY <1>13 DEF PacketComes
    <2>2. /\ Upto(muxed, sent + 1) /\ Below(muxed, sent + 1)
          /\ Upto(held, sent + 1) /\ Below(held, sent + 1)
      BY SentFollows DEF OutTypes, Order
    <2>3. writer.at \in {"check", "drain"} =>
             Upto(writer.take, sent + 1) /\ Below(writer.take, sent + 1)
      BY SentFollows DEF OutTypes, Writers, Order
    <2> QED BY <2>1, <2>2, <2>3 DEF OutTypes, Order
  <1>14. CASE PacketHeld
    <2>1. /\ held' = Append(held, encoder.pkt) /\ encoder'.at = "idle"
          /\ UNCHANGED <<sent, muxed, writer>> /\ out'.deferred = out.deferred
      BY Zenon, <1>14 DEF PacketHeld, StopsItself, OutTypes, Flags, Encoders
    <2>2. Ascends(held') /\ Upto(held', sent)
      BY <1>14, <2>1, AppendAscends DEF PacketHeld, OutTypes, Encoders, Order
    <2> QED BY <2>1, <2>2 DEF Order
  <1>15. CASE PacketPushed
    <2>1. /\ muxed' = muxed \/ muxed' = Append(muxed, encoder.pkt)
          /\ encoder'.at = "idle" /\ UNCHANGED <<sent, held, writer, out>>
      BY <1>15 DEF PacketPushed, MuxerPush, OutTypes, Encoders
    <2>2. Ascends(muxed') /\ Upto(muxed', sent)
      BY Zenon, <1>15, <2>1, AppendAscends DEF PacketPushed, OutTypes, Encoders, Order
    <2>3. ~out.deferred /\ writer.at \notin {"check", "drain"}
      BY <1>15 DEF PacketPushed, Gate, Completing
    <2> QED BY <2>1, <2>2, <2>3 DEF Order
  <1>16. CASE WriterFinishesStart
    BY <1>16 DEF WriterFinishesStart, media, locks, past, OutTypes, UiPlaces, Flags, Writers,
        Encoders, Events, Gate, Order, Ascends, Below, Upto, Before, Completing
  <1>17. CASE WriterCannotStart
    BY <1>17 DEF WriterCannotStart, StopsItself, media, locks, past, OutTypes, UiPlaces, Flags,
        Writers, Encoders, Events, Gate, Order, Ascends, Below, Upto, Before, Completing
  <1>18. CASE WriterTakesHeld
    BY <1>18 DEF WriterTakesHeld, locks, past, OutTypes, UiPlaces, Flags, Writers, Encoders,
        Events, Gate, Order, Ascends, Below, Upto, Before, Completing
  <1>19. CASE WriterChecks
    <2>1. UNCHANGED <<encoder, muxed, held, sent>>
      BY <1>19 DEF WriterChecks, media
    <2>2. \/ writer'.at = "drain" /\ writer'.take = writer.take
          \/ writer'.at = "wait" /\ ~out'.deferred
      BY Zenon, <1>19 DEF WriterChecks, OutTypes, Writers, Flags
    <2> QED BY <1>19, <2>1, <2>2 DEF WriterChecks, Order
  <1>20. CASE WriterDrains
    <2> DEFINE t == writer.take
    <2>1. t \in Seq(Nat) /\ t # <<>> /\ writer.at = "drain" /\ writer'.at = "drain"
      BY <1>20 DEF WriterDrains, OutTypes, Writers
    <2>2. /\ UNCHANGED <<encoder, held, sent, out>>
          /\ \/ muxed' = Append(muxed, Head(t)) /\ writer'.take = Tail(t)
             \/ muxed' = muxed /\ writer'.take = <<>>
      BY <1>20 DEF WriterDrains, MuxerPush, OutTypes, Writers
    <2>3. Ascends(t) /\ Upto(t, sent) /\ Before(muxed, t)
      BY <2>1 DEF Order
    <2>4. CASE muxed' = muxed /\ writer'.take = <<>>
      BY <2>1, <2>2, <2>4 DEF Order, Ascends, Upto, Before, Below
    <2>5. CASE muxed' = Append(muxed, Head(t)) /\ writer'.take = Tail(t)
      <3> HIDE DEF t
      <3>1. /\ Head(t) \in Nat /\ Head(t) <= sent /\ Below(muxed, Head(t))
            /\ Ascends(Tail(t)) /\ Upto(Tail(t), sent) /\ Before(Append(muxed, Head(t)), Tail(t))
            /\ \A p \in Nat : Below(t, p) => Head(t) < p /\ Below(Tail(t), p)
        BY <2>1, <2>3, HeadMoves DEF OutTypes
      <3>2. Ascends(muxed') /\ Upto(muxed', sent)
        BY <2>5, <3>1, AppendAscends DEF OutTypes, Order
      <3>3. encoder.at # "idle" => Below(t, encoder.pkt) /\ Below(muxed, encoder.pkt)
        BY <2>1 DEF Order, t
      <3>4. encoder.at # "idle" => Below(Tail(t), encoder.pkt) /\ Below(muxed', encoder.pkt)
        BY <2>5, <3>1, <3>3, AppendBelow DEF OutTypes, Encoders
      <3> QED BY <2>1, <2>2, <2>5, <3>1, <3>2, <3>4 DEF Order
    <2> QED BY <2>2, <2>4, <2>5
  <1>21. CASE WriterOpens
    BY <1>21 DEF WriterOpens, media, locks, past, OutTypes, UiPlaces, Flags, Writers, Encoders,
        Events, Gate, Order, Ascends, Below, Upto, Before, Completing
  <1>22. CASE WriterGoes
    BY SMTT(60), <1>22 DEF WriterGoes, media, locks, past, OutTypes, UiPlaces, Flags, Writers, Encoders,
        Events, Gate, Order, Ascends, Below, Upto, Before, Completing
  <1>23. CASE BuildsMuxer \/ MakesSession \/ RemakesMuxer \/ BeginsEvent \/ HearsFragments
            \/ StartCompletes \/ StartJoins
    BY Zenon, <1>23 DEF BuildsMuxer, MakesSession, RemakesMuxer, BeginsEvent, HearsFragments,
        StartCompletes, StartJoins, locks, media, past, Order, Ascends, Below, Upto,
        Before, Completing
  <1>24. CASE EndPressed \/ StopFlushes \/ StopResets \/ StopDropsLan \/ WriterSpools \/
            ReaderEnters \/ ReaderLeaves
    BY <1>24 DEF EndPressed, StopFlushes, StopResets, StopDropsLan, WriterSpools, ReaderEnters,
        ReaderLeaves, locks, media, past, Order, Ascends, Below, Upto, Before,
        Completing
  <1>25. CASE CueComes \/ CueFindsSession \/ CueAnswered
    BY <1>25 DEF CueComes, CueFindsSession, CueAnswered, locks, media, past, Order, Ascends,
        Below, Upto, Before, Completing
  <1> QED
    BY <1>1, <1>2, <1>3, <1>4, <1>5, <1>6, <1>7, <1>8, <1>9, <1>10, <1>11, <1>12, <1>13,
       <1>14, <1>15, <1>16, <1>17, <1>18, <1>19, <1>20, <1>21, <1>22, <1>23, <1>24,
       <1>25
       DEF OutputNext, UiStep, WriterStep, CompleteStart

\* A step that changes nothing of a broadcast keeps all of it.
LEMMA OutStutters ==
    ASSUME OutInv, UNCHANGED outVars
    PROVE  OutInv'
PROOF
  <1> USE DEF outVars
  <1>1. OutTypes' /\ Locks'
    BY DEF OutInv, OutTypes, Locks
  <1>2. Gate' /\ Stages'
    BY DEF OutInv, Gate, Stages, Completing
  <1>3. Lives' /\ Spool' /\ Order'
    BY DEF OutInv, Lives, Spool, Order
  <1> QED BY <1>1, <1>2, <1>3 DEF OutInv

\* The inductive invariant of a broadcast.
LEMMA OutInvHolds == OutputSpec => []OutInv
PROOF
  <1>1. OutputInit => OutInv
    <2> SUFFICES ASSUME OutputInit PROVE OutInv
      OBVIOUS
    <2> USE DEF OutputInit, NoOutput, NoMuxer
    <2>1. OutTypes
      BY DEF OutTypes, Flags, Writers, Encoders, UiPlaces, Events
    <2>2. Locks /\ Gate
      BY SMTT(60) DEF Locks, Gate, Completing
    <2>3. Stages /\ Lives /\ Spool
      BY DEF Stages, Lives, Spool, Completing, Under
    <2>4. Order
      BY DEF Order, Ascends, Upto
    <2> QED BY <2>1, <2>2, <2>3, <2>4 DEF OutInv
  <1>2. OutInv /\ [OutputNext]_outVars => OutInv'
    BY OutTypesKept, LocksKept, GateKept, StagesKept, LivesKept, SpoolKept, OrderKept,
       OutStutters DEF OutInv
  <1> QED BY <1>1, <1>2, PTL DEF OutputSpec

\* Packets reach the muxer in the order the encoder gave them, however long the start is
\* deferred, however many packets are held meanwhile and whoever finishes the start
\* (out_packet, finish_deferred_start).
THEOREM PacketsKeepTheirOrder == OutputSpec => []PacketsInOrder
PROOF
  <1>1. OutInv => PacketsInOrder
    <2> SUFFICES ASSUME OutInv, NEW i \in 2..Len(muxed)
                 PROVE  muxed[i - 1] < muxed[i]
      BY DEF PacketsInOrder
    <2>1. muxed \in Seq(Nat) /\ Ascends(muxed)
      BY DEF OutInv, OutTypes, Order
    <2>2. i - 1 \in 1..Len(muxed) /\ i \in 1..Len(muxed) /\ i - 1 < i
      BY <2>1
    <2> QED BY <2>1, <2>2 DEF Ascends
  <1> QED BY <1>1, OutInvHolds, PTL

\* The UI thread never waits for the registry with ctx->mtx in its hand while a status
\* call holds the registry and waits for ctx->mtx (out_start, stop_output,
\* encoder_stats).
THEOREM LocksHaveAnOrder == OutputSpec => []NobodyWaitsInACircle
PROOF
  <1>1. OutInv => NobodyWaitsInACircle
    BY DEF OutInv, Locks, Locked, NobodyWaitsInACircle
  <1> QED BY <1>1, OutInvHolds, PTL

\* When Session::end runs, every fragment the muxer gave out is in the spool, whatever the
\* writer was doing when the stop came (writer_shutdown, writer_loop).
THEOREM EndFindsAllSpooled == OutputSpec => []SpooledBeforeTheEnd
PROOF
  <1>1. OutInv => SpooledBeforeTheEnd
    BY DEF OutInv, Spool, SpooledBeforeTheEnd
  <1> QED BY <1>1, OutInvHolds, PTL

\* No output goes with its event live, whether it was ended, stopped itself or never
\* started, unless OBS refused the capture of a start that was complete (out_destroy,
\* out_start).
THEOREM NoOutputLeavesItsEvent == OutputSpec => []NoEventLeftLive
PROOF
  <1>1. OutInv => NoEventLeftLive
    BY DEF OutInv, Lives, NoEventLeftLive
  <1> QED BY <1>1, OutInvHolds, PTL
=============================================================================
