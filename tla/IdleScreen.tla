------------------------------ MODULE IdleScreen ------------------------------
(***************************************************************************)
(* What an appliance puts on its screens: the frames of the delivery       *)
(* thread, the idle screen of the poll thread (update_screen,              *)
(* screen_action), the black of a stop.  Three threads draw, and agree on  *)
(* what shows only through m_idle_showing and the times they leave behind. *)
(*                                                                         *)
(* Pictures are told apart by where they come from.  How a picture gets to *)
(* a screen is DrmOutput's: here a screen is driven or is not.             *)
(***************************************************************************)
EXTENDS Integers, FiniteSets

CONSTANTS
    Heads,      \* the screens
    IdleModes,  \* the idle modes it may be set to
    Acts        \* how often an operator acts (a bound)

ASSUME HeadsAssumption ==
    /\ Heads # {} /\ IsFiniteSet(Heads) /\ Acts \in Nat
    /\ IdleModes \subseteq {"splash", "black", "image", "hold"}

VARIABLES
    display,    \* it is open
    driven,     \* the screens it drives
    events,     \* the screens an event's picture was drawn on last
    poller,     \* the poll thread: where it is, and what it still has to draw, and where
    feeder,     \* the delivery thread, from taking a frame to counting it
    desk,       \* the operator's request
    transport,  \* m_playing and m_paused
    screen,     \* m_idle_showing, frames arriving, a frame was shown
    boot,       \* the boot splash owns the screen; it was drawn
    setting,    \* idle_mode, identity_until_video
    kept,       \* history: screens with a picture when the operator held it, and since
    acts

picVars    == <<driven, events, kept>>
threadVars == <<poller, feeder, desk>>
showVars   == <<transport, screen, boot, setting>>
idleVars   == <<display, picVars, threadVars, showVars, acts>>

Rests == [at |-> "rests", pic |-> "none", left |-> {}]
Act   == acts < Acts /\ acts' = acts + 1
-------------------------------------------------------------------------------
\* ---- the display (DrmOutput) ------------------------------------------------

\* A round of drawing on some screens.  Nothing is drawn without a display, nor on a
\* screen that is not driven.
Shows(pic, on) ==
    LET drawn == {h \in on : display /\ h \in driven}
    IN  /\ events' = IF pic = "event" THEN events \cup drawn ELSE events \ drawn
        /\ UNCHANGED <<driven, kept>>

\* A screen fails or is unplugged; recheck drives it again, with what is in its buffer.
ScreenLost(h) ==
    /\ h \in driven /\ driven' = driven \ {h}
    /\ events' = events \ {h} /\ kept' = kept \ {h}
    /\ UNCHANGED <<display, threadVars, showVars, acts>>

ScreenFound(h) ==
    /\ display /\ h \notin driven /\ driven' = driven \cup {h}
    /\ UNCHANGED <<display, events, kept, threadVars, showVars, acts>>
-------------------------------------------------------------------------------
\* ---- the idle screen ------------------------------------------------------

\* screen_action, when there is no picture to leave alone.
IdleAction ==
    CASE setting.mode = "black" -> "black"
      [] setting.mode = "image" -> "still"
      [] OTHER -> "splash"

\* Mutant: screen_action, from when holding was an idle mode only.
ScreenActionOfIdle ==
    IF screen.arriving THEN "leave"
    ELSE IF setting.identity /\ ~screen.shown THEN "splash"
    ELSE IF setting.mode = "hold" /\ screen.shown THEN "leave" ELSE IdleAction

ScreenAction ==
    IF screen.arriving THEN "leave"
    ELSE IF setting.identity /\ ~screen.shown THEN "splash"
    ELSE IF transport.play /\ transport.hold /\ screen.shown THEN "leave"
    ELSE IF setting.mode = "hold" /\ screen.shown THEN "leave" ELSE IdleAction

Draws(pic) == poller' = [at |-> "draws", pic |-> pic, left |-> Heads]

\* update_screen, on the poll thread: during the boot splash it is drawn once.  After
\* it the action decides; an idle screen that shows is drawn again only if the splash
\* has something new to say.  A still that cannot be read becomes the splash.
Looks ==
    /\ poller.at = "rests"
    /\ LET idle   == screen.idle /\ ~(boot.drawn /\ ~boot.on)
           act    == IF boot.on THEN "boot" ELSE ScreenAction
           leaves == UNCHANGED poller
       IN  /\ boot' = [boot EXCEPT !.drawn = boot.on]
           /\ screen' = IF boot.on THEN screen
                        ELSE [screen EXCEPT !.idle = idle /\ ~(act = "leave" /\ screen.arriving)]
           /\ \/ act = "boot" /\ IF boot.drawn THEN leaves ELSE Draws("splash")
              \/ act = "leave" /\ leaves
              \/ act \in {"black", "still"} /\ IF idle THEN leaves ELSE Draws(act)
              \/ act = "still" /\ ~idle /\ Draws("splash")
              \/ act = "splash" /\ idle /\ leaves
              \/ act = "splash" /\ Draws("splash")
    /\ UNCHANGED <<display, picVars, feeder, desk, transport, setting, acts>>

\* show_splash goes from screen to screen, a round each; the rest is one round.
PollDraws ==
    /\ poller.at = "draws"
    /\ \E on \in {{h} : h \in poller.left} \cup {poller.left} :
          /\ on # {} /\ (poller.pic = "splash" => Cardinality(on) = 1)
          /\ (poller.pic # "splash" => on = Heads)
          /\ poller' = [poller EXCEPT !.left = @ \ on]
          /\ Shows(poller.pic, on)
    /\ UNCHANGED <<display, feeder, desk, showVars, acts>>

PollMarks ==
    /\ poller.at = "draws" /\ poller.left = {}
    /\ poller' = Rests
    /\ screen' = [screen EXCEPT !.idle = TRUE]
    /\ UNCHANGED <<display, picVars, feeder, desk, transport, boot, setting, acts>>

BootEnds ==
    /\ boot.on /\ boot' = [boot EXCEPT !.on = FALSE]
    /\ UNCHANGED <<display, picVars, threadVars, transport, screen, setting, acts>>
-------------------------------------------------------------------------------
\* ---- frames ---------------------------------------------------------------

\* deliver_loop: a frame is taken while playing, and shown whatever comes meanwhile; the
\* boot splash lets it go by.
FrameTaken ==
    /\ feeder = "rests" /\ transport.play /\ ~transport.hold /\ ~boot.on
    /\ feeder' = "holds"
    /\ UNCHANGED <<display, picVars, poller, desk, showVars, acts>>

FramePresented ==
    /\ feeder = "holds" /\ feeder' = "shows"
    /\ Shows("event", Heads)
    /\ UNCHANGED <<display, poller, desk, showVars, acts>>

FrameCounted ==
    /\ feeder = "shows" /\ feeder' = "rests"
    /\ screen' = [screen EXCEPT !.arriving = TRUE, !.shown = TRUE, !.idle = FALSE]
    /\ UNCHANGED <<display, picVars, poller, desk, transport, boot, setting, acts>>

\* Two seconds without a frame.
FramesCease ==
    /\ screen.arriving /\ feeder = "rests"
    /\ screen' = [screen EXCEPT !.arriving = FALSE]
    /\ UNCHANGED <<display, picVars, threadVars, transport, boot, setting, acts>>
-------------------------------------------------------------------------------
\* ---- the operator ---------------------------------------------------------

ScreenPlay ==
    /\ desk = "rests" /\ Act
    /\ transport' = [play |-> TRUE, hold |-> FALSE] /\ kept' = {}
    /\ UNCHANGED <<display, driven, events, threadVars, screen, boot, setting>>

\* pause.  The history follows the pictures that nothing was about to replace.
ScreenHold ==
    /\ desk = "rests" /\ Act
    /\ transport' = [transport EXCEPT !.hold = TRUE]
    /\ kept' = {h \in driven \cap events :
                  transport.play /\ poller.at # "draws" /\ feeder = "rests"}
    /\ UNCHANGED <<display, driven, events, threadVars, screen, boot, setting>>

\* stop_playback, then black, unless the last picture is to stay.
ScreenStop ==
    /\ desk = "rests" /\ Act
    /\ transport' = [play |-> FALSE, hold |-> FALSE] /\ kept' = {}
    /\ desk' = IF setting.mode = "hold" THEN "rests" ELSE "blanks"
    /\ UNCHANGED <<display, driven, events, poller, feeder, screen, boot, setting>>

ScreenBlanks ==
    /\ desk = "blanks" /\ desk' = "rests"
    /\ Shows("black", Heads)
    /\ UNCHANGED <<display, poller, feeder, showVars, acts>>

\* reconfigure, when the display is set otherwise: closed, opened, and nothing shows.
DisplayCloses ==
    /\ desk = "rests" /\ Act
    /\ desk' = "opens" /\ display' = FALSE
    /\ driven' = {} /\ events' = {} /\ kept' = {}
    /\ UNCHANGED <<poller, feeder, showVars>>

DisplayOpens ==
    /\ desk = "opens" /\ desk' = "resets"
    /\ \E on \in SUBSET Heads : driven' = on /\ display' = (on # {} \/ Cardinality(Heads) > 1)
    /\ UNCHANGED <<events, kept, poller, feeder, showVars, acts>>

DisplaySet ==
    /\ desk = "resets" /\ desk' = "rests"
    /\ screen' = [screen EXCEPT !.idle = FALSE, !.arriving = FALSE]
    /\ UNCHANGED <<display, picVars, poller, feeder, transport, boot, setting, acts>>
-------------------------------------------------------------------------------
\* The display has just been opened; the box may play on by itself.
IdleInit ==
    /\ display = TRUE /\ driven = Heads /\ events = {} /\ kept = {}
    /\ poller = Rests /\ feeder = "rests" /\ desk = "rests"
    /\ transport \in [play : BOOLEAN, hold : {FALSE}]
    /\ screen = [idle |-> FALSE, arriving |-> FALSE, shown |-> FALSE]
    /\ boot \in [on : BOOLEAN, drawn : {FALSE}]
    /\ setting \in [mode : IdleModes, identity : BOOLEAN]
    /\ acts = 0

IdleNext ==
    \/ \E h \in Heads : ScreenLost(h) \/ ScreenFound(h)
    \/ Looks \/ PollDraws \/ PollMarks \/ BootEnds
    \/ FrameTaken \/ FramePresented \/ FrameCounted \/ FramesCease
    \/ ScreenPlay \/ ScreenHold \/ ScreenStop \/ ScreenBlanks
    \/ DisplayCloses \/ DisplayOpens \/ DisplaySet

IdleSpec == IdleInit /\ [][IdleNext]_idleVars
-------------------------------------------------------------------------------
IdleTypeOK ==
    /\ display \in BOOLEAN /\ driven \subseteq Heads /\ events \subseteq Heads
    /\ kept \subseteq Heads /\ acts \in Nat
    /\ poller \in [at : {"rests", "draws"}, pic : {"none", "splash", "black", "still"},
                   left : SUBSET Heads]
    /\ feeder \in {"rests", "holds", "shows"}
    /\ desk \in {"rests", "blanks", "opens", "resets"}
    /\ transport \in [play : BOOLEAN, hold : BOOLEAN]
    /\ screen \in [idle : BOOLEAN, arriving : BOOLEAN, shown : BOOLEAN]
    /\ boot \in [on : BOOLEAN, drawn : BOOLEAN]
    /\ setting \in [mode : IdleModes, identity : BOOLEAN]

\* A held picture stays, whatever the idle mode: from the moment the operator holds a
\* picture that nothing is about to replace, no thread puts another in its place on a
\* screen that stays driven (screen_action: the idle screen is for having nothing to
\* show).
HeldPictureStays == kept \subseteq events
===============================================================================
