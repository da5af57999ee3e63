------------------------------- MODULE Captions -------------------------------
(***************************************************************************)
(* Captions carried from OBS's sources to the broadcast: the bridge that   *)
(* subscribes to sources (src/src/obs/caption_bridge.cpp), started and     *)
(* stopped on the UI thread while sources are made and destroyed and give  *)
(* captions on other threads; and the splitting of a phrase into pieces    *)
(* libobs carries whole (src/src/obs/caption_text.h).                      *)
(***************************************************************************)
EXTENDS Integers, Sequences, FiniteSets

CONSTANTS
    Sources,      \* the sources that may exist
    BridgeRuns,   \* how often the bridge is started (a bound)
    Phrase,       \* the longest phrase to split, in bytes (a bound)
    PieceMax      \* kCaptionMaxBytes

ASSUME CaptionAssumption == IsFiniteSet(Sources) /\ {BridgeRuns, Phrase, PieceMax} \subseteq Nat

VARIABLES
    bridge,    \* where the UI thread is, m_running, m_output, the signal connected
    toAsk,     \* the sources obs_enum_sources has still to offer
    alive,     \* the sources that exist
    hooks,     \* per source: how many caption callbacks of ours it holds
    subs,      \* m_subs
    maker,     \* the sources whose source_create signal is being delivered
    runs,
    phrase     \* the phrase that is split

captionVars == <<bridge, toAsk, alive, hooks, subs, maker, runs, phrase>>

CaptionInit ==
    /\ bridge = [at |-> "off", running |-> FALSE, connected |-> FALSE]
    /\ toAsk = {} /\ alive \in SUBSET Sources
    /\ hooks = [s \in Sources |-> 0] /\ subs = {}
    /\ maker = {} /\ runs = 0
    /\ phrase = <<>>

\* subscribe: m_running inside the lock, and a source taken once.
Subscribe(s) ==
    IF ~bridge.running \/ s \in subs THEN UNCHANGED <<hooks, subs>>
    ELSE hooks' = [hooks EXCEPT ![s] = @ + 1] /\ subs' = subs \cup {s}

\* start, for every source: the signal is connected before the sources that
\* exist are offered one by one; for a named one, that one alone.
BridgeStarts ==
    /\ bridge.at = "off" /\ runs < BridgeRuns
    /\ \/ /\ bridge' = [at |-> "offer", running |-> TRUE, connected |-> TRUE]
          /\ toAsk' = alive
       \/ /\ bridge' = [at |-> "offer", running |-> TRUE, connected |-> FALSE]
          /\ \E s \in alive : toAsk' = {s}
    /\ runs' = runs + 1
    /\ UNCHANGED <<alive, hooks, subs, maker, phrase>>

BridgeOffered ==
    /\ bridge.at = "offer"
    /\ \/ /\ \E s \in toAsk : Subscribe(s) /\ toAsk' = toAsk \ {s}
          /\ UNCHANGED bridge
       \/ /\ toAsk = {} /\ bridge' = [bridge EXCEPT !.at = "on"]
          /\ UNCHANGED <<hooks, subs, toAsk>>
    /\ UNCHANGED <<alive, maker, runs, phrase>>

\* stop: m_running down, the signal disconnected, every callback removed.
BridgeStops ==
    /\ bridge.at = "on"
    /\ bridge' = [bridge EXCEPT !.at = "disconnect", !.running = FALSE]
    /\ UNCHANGED <<toAsk, alive, hooks, subs, maker, runs, phrase>>

BridgeDisconnects ==
    /\ bridge.at = "disconnect"
    /\ bridge' = [bridge EXCEPT !.at = "remove", !.connected = FALSE]
    /\ UNCHANGED <<toAsk, alive, hooks, subs, maker, runs, phrase>>

\* unsubscribe_all: a weak reference answers for a source that is gone.
UnsubscribeAll ==
    /\ bridge.at = "remove"
    /\ hooks' = [s \in Sources |-> IF s \in subs \cap alive THEN hooks[s] - 1 ELSE hooks[s]]
    /\ subs' = {} /\ bridge' = [bridge EXCEPT !.at = "off"]
    /\ UNCHANGED <<toAsk, alive, maker, runs, phrase>>

\* A source is made; with the signal connected on_source_created is called, on
\* that thread, and checks m_running once before it subscribes.
SourceMade ==
    /\ \E s \in Sources \ (alive \cup subs) :
         /\ alive' = alive \cup {s}
         /\ maker' = IF bridge.connected /\ bridge.running THEN maker \cup {s} ELSE maker
    /\ UNCHANGED <<bridge, toAsk, hooks, subs, runs, phrase>>

SourceOffered ==
    /\ \E s \in maker : Subscribe(s) /\ maker' = maker \ {s}
    /\ UNCHANGED <<bridge, toAsk, alive, runs, phrase>>

\* A source is destroyed, its callbacks with it.
SourceGone ==
    /\ \E s \in alive \ (toAsk \cup maker) :
         alive' = alive \ {s} /\ hooks' = [hooks EXCEPT ![s] = 0]
    /\ UNCHANGED <<bridge, toAsk, subs, maker, runs, phrase>>

\* watch_text_loop finds a phrase in the named source and has it split; the
\* bridge itself is then left alone.
PhraseFound ==
    /\ phrase = <<>> /\ bridge.at = "on" /\ ~bridge.connected /\ maker = {}
    /\ alive = subs /\ runs = 1
    /\ phrase' \in UNION {[1..n -> {"space", "letter", "lead", "more"}] : n \in 1..Phrase}
    /\ UNCHANGED <<bridge, toAsk, alive, hooks, subs, maker, runs>>

CaptionNext ==
    /\ phrase = <<>>
    /\ \/ PhraseFound
       \/ BridgeStarts \/ BridgeOffered \/ BridgeStops \/ BridgeDisconnects \/ UnsubscribeAll
       \/ SourceMade \/ SourceOffered \/ SourceGone
-----------------------------------------------------------------------------
\* ---- split_caption --------------------------------------------------------

Back(ok(_), from, low) ==
    LET fits == {e \in low..from : ok(e)} IN
    IF fits = {} THEN low ELSE CHOOSE e \in fits : \A f \in fits : f <= e

\* caption_cut_point, in positions from 0: at most PieceMax bytes, a whole
\* character, the last space when that is not too early.
AtSpace(s, from, end) ==
    LET space == Back(LAMBDA e : s[e + 1] = "space", (IF end > from THEN end - 1 ELSE from), 0) IN
    IF s[space + 1] = "space" /\ space > from /\ (space - from) * 2 >= PieceMax
    THEN space ELSE end

CutPoint(s, from) ==
    IF Len(s) - from <= PieceMax THEN Len(s)
    ELSE AtSpace(s, from, Back(LAMBDA e : s[e + 1] # "more", from + PieceMax, from))

\* Mutant: the cut is where the bytes run out.
CutBlunt(s, i) == IF i + PieceMax < Len(s) THEN i + PieceMax ELSE Len(s)

\* The cut of one turn: never none at all, and never through a character.
Advanced(s, i, cut) ==
    LET on == {c \in (i + 1)..Len(s) : c = Len(s) \/ s[c + 1] # "more"} IN
    IF cut > i THEN cut ELSE CHOOSE c \in on : \A d \in on : c <= d

Cut(s, i) == Advanced(s, i, CutPoint(s, i))

SkipSpaces(s, i) ==
    LET rest == {k \in i..(Len(s) - 1) : s[k + 1] # "space"} IN
    IF rest = {} THEN Len(s) ELSE CHOOSE k \in rest : \A j \in rest : k <= j

\* split_caption, as the pieces' bounds <<first, one past the last>>: one turn of
\* the loop takes what is before the cut, less the spaces at its end.
Piece(i, end) == IF end > i THEN << <<i, end>> >> ELSE <<>>
Taken(s, i, cut) == Piece(i, Back(LAMBDA e : e = i \/ s[e] # "space", cut, i))

Pieces(s) ==
    LET from[i \in 0..Len(s)] ==
          IF i = Len(s) THEN <<>>
          ELSE Taken(s, i, Cut(s, i)) \o from[SkipSpaces(s, Cut(s, i))]
    IN  from[SkipSpaces(s, 0)]
-----------------------------------------------------------------------------
\* UTF-8 as a source gives it: a character starts with a space, a letter or a
\* lead byte, and only a lead byte has more after it.
WellFormed(s) ==
    \A k \in DOMAIN s : (s[k] = "more") = (k > 1 /\ s[k - 1] \in {"lead", "more"})

KeepsEveryWord(s, p) ==
    /\ \A k \in DOMAIN s : s[k] # "space" => \E n \in DOMAIN p : p[n][1] < k /\ k <= p[n][2]
    /\ \A n \in DOMAIN p :
         LET first == p[n][1] + 1  last == p[n][2] IN
         /\ s[first] \notin {"space", "more"} /\ s[last] # "space"
         /\ last < Len(s) => s[last + 1] # "more"
         /\ \/ last - first < PieceMax
            \/ \A k \in (first + 1)..last : s[k] = "more"

\* caption_text.h: no word is lost, no piece begins or ends with a space or
\* starts inside a character, and none is longer than libobs carries, unless it
\* is one character that is.
SplitKeepsEveryWord == WellFormed(phrase) => KeepsEveryWord(phrase, Pieces(phrase))
===============================================================================
