----------------------------- MODULE TermWindows -----------------------------
(***************************************************************************)
(* The windows of the application: the activity Term and its flipper of    *)
(* views, the sessions of TermService (a SessionList), the activity        *)
(* WindowList in front of Term, and RemoteInterface, through which other   *)
(* programs open windows.  All run on the main thread; a step is one       *)
(* callback of the system, and the order of the callbacks is Android's.    *)
(*                                                                         *)
(* Only what is common to both lists is kept of a session or a view: the   *)
(* number of the session.  What happens inside a session is                *)
(* ShellTermSession's.                                                     *)
(***************************************************************************)
EXTENDS Integers, Sequences, SequencesExt

CONSTANTS MaxSessions,      \* bound: sessions ever created
          MaxIntents        \* bound: intents on their way

ASSUME WindowsAssumption == MaxSessions \in Nat \ {0} /\ MaxIntents \in Nat

VARIABLES
  sessions,       \* TermService.mTermSessions
  made,           \* how many sessions have been created
  activity,       \* Term: "none", "paused" or "resumed"
  connected,      \* mTermSessions # null: onServiceConnected() has been called
  listening,      \* how often the activity is a callback of the list
  finishing, mStopServiceOnFinish,
  views, mWhichChild,             \* the flipper
  onResumeSelectWindow,
  launch, intents,                \* the intent it was started with, later ones
  chooser,        \* WindowList is in front of Term
  crashed,        \* an exception on the main thread has ended the program
  reason,         \* history: why mStopServiceOnFinish was set,
  stoppedAt,      \* and how many sessions had been created by then
  odd             \* history: the orders of events the code does not expect

service == <<sessions, made>>
flipper == <<views, mWhichChild>>
stopping == <<mStopServiceOnFinish, reason, stoppedAt>>
closing == <<finishing, stopping>>
term == <<activity, connected, listening, closing, flipper, onResumeSelectWindow, launch>>
vars == <<service, term, intents, chooser, crashed, odd>>

OpenWindow(s) == [action |-> "open", session |-> s]       \* s is not in the intent
SwitchWindow(k) == [action |-> "switch", target |-> k]
Main == [action |-> "main"]

MinOf(a, b) == IF a < b THEN a ELSE b
Elements(q) == {q[k] : k \in 1..Len(q)}
-----------------------------------------------------------------------------
(* Android's ViewAnimator, with its index of the view shown.               *)

ShownAfter(k, n) == IF k >= n \/ n = 0 THEN 0 ELSE k      \* setDisplayedChild(k)
ShownLeft(k, n) == IF n = 0 THEN 0 ELSE MinOf(k, n - 1)   \* removeView()s

(* The loop over the views that removes those whose session is not in the  *)
(* list: what is left of the first k of them, and of all.                  *)
LiveUpTo(vs, ss) ==
  LET kept[k \in 0..Len(vs)] ==
        IF k = 0 THEN <<>>
        ELSE IF vs[k] \in Elements(ss) THEN Append(kept[k-1], vs[k]) ELSE kept[k-1]
  IN  kept

LiveViews(vs, ss) == LiveUpTo(vs, ss)[Len(vs)]
-----------------------------------------------------------------------------
(* The list of sessions and those who listen to it.                        *)

(* The loop of onUpdate() and onResume()                                   *)
Purged(vs, ss) == IF Len(ss) < Len(vs) THEN LiveViews(vs, ss) ELSE vs

\* mutant: an empty list is no reason to finish.
LastGone_Ignored(ss) == FALSE

LastGone(ss) == listening > 0 /\ ss = <<>>

(* mStopServiceOnFinish = true; finish()                                   *)
Stop(why) ==
  /\ finishing' = TRUE /\ mStopServiceOnFinish' = TRUE
  /\ reason' = why /\ stoppedAt' = made

(* A fresh activity, or none.                                              *)
NotStopping ==
  /\ finishing' = FALSE /\ mStopServiceOnFinish' = FALSE
  /\ reason' = "none" /\ stoppedAt' = 0

(* notifyChange() and Term.onUpdate(), once ss is the list                 *)
onUpdate(ss) ==
  /\ sessions' = ss
  /\ IF LastGone(ss) THEN Stop("empty") ELSE UNCHANGED closing
  /\ views' = IF listening > 0 /\ ss # <<>> THEN Purged(views, ss) ELSE views
  /\ mWhichChild' = ShownLeft(mWhichChild, Len(views'))
  /\ odd' = odd \cup (IF listening = 0 /\ ss = <<>> THEN {"unseen"} ELSE {})

(* A session ends by itself, and onSessionFinish() removes it.             *)
SessionFinishes == \E k \in 1..Len(sessions) :
  /\ onUpdate(RemoveAt(sessions, k))
  /\ UNCHANGED <<made, activity, connected, listening, onResumeSelectWindow, launch,
                 intents, chooser, crashed>>

(* RemoteInterface.openNewWindow()                                         *)
openNewWindow ==
  /\ made < MaxSessions /\ Len(intents) < MaxIntents
  /\ made' = made + 1
  /\ onUpdate(Append(sessions, made'))
  /\ intents' = Append(intents, OpenWindow(made'))
  /\ UNCHANGED <<activity, connected, listening, onResumeSelectWindow, launch, chooser, crashed>>

(* RemoteInterface.appendToWindow(), the window being found                *)
appendToWindow == \E k \in 1..Len(sessions) :
  /\ Len(intents) < MaxIntents
  /\ intents' = Append(intents, SwitchWindow(k - 1))
  /\ UNCHANGED <<service, term, chooser, crashed, odd>>
-----------------------------------------------------------------------------
(* The activity comes and goes.                                            *)

(* onCreate(), by the user or for an intent                                *)
onCreate ==
  /\ activity = "none"
  /\ activity' = "paused"
  /\ connected' = FALSE /\ listening' = 0
  /\ NotStopping
  /\ views' = <<>> /\ mWhichChild' = 0 /\ onResumeSelectWindow' = -1
  /\ IF intents = <<>> THEN launch' = Main /\ UNCHANGED intents
                       ELSE launch' = Head(intents) /\ intents' = Tail(intents)
  /\ UNCHANGED <<service, chooser, crashed, odd>>

(* onServiceConnected() and populateViewFlipper()                          *)
onServiceConnected ==
  LET first == IF sessions = <<>> THEN <<made + 1>> ELSE <<>>
      all == sessions \o first
  IN  /\ activity # "none" /\ ~connected
      /\ sessions = <<>> => made < MaxSessions
      /\ sessions' = all /\ made' = made + Len(first)
      /\ connected' = TRUE /\ listening' = listening + 1
      /\ views' = views \o all
      /\ mWhichChild' = CASE launch.action = "open" -> Len(all) - 1
                          [] launch.action = "switch" -> ShownAfter(launch.target, Len(all))
                          [] OTHER -> mWhichChild
      /\ UNCHANGED <<activity, closing, onResumeSelectWindow, launch, intents, chooser,
                     crashed, odd>>

\* mutant: the views are not compared with the list.
ResumeViews_Kept == views

ResumeViews == IF connected THEN Purged(views, sessions) ELSE views

onResume ==
  /\ activity = "paused" /\ ~finishing /\ ~chooser
  /\ activity' = "resumed"
  /\ listening' = IF connected THEN listening + 1 ELSE listening
  /\ views' = ResumeViews
  /\ mWhichChild' = IF onResumeSelectWindow >= 0
                    THEN ShownAfter(onResumeSelectWindow, Len(views'))
                    ELSE ShownLeft(mWhichChild, Len(views'))
  /\ onResumeSelectWindow' = -1
  /\ UNCHANGED <<service, connected, closing, launch, intents, chooser, crashed, odd>>

\* mutant: onPause() leaves its callback in the list.
PausedListening_Kept == listening

PausedListening == IF listening > 0 THEN listening - 1 ELSE 0

onPause ==
  /\ activity = "resumed"
  /\ activity' = "paused"
  /\ listening' = PausedListening
  /\ UNCHANGED <<service, connected, closing, flipper, onResumeSelectWindow, launch,
                 intents, chooser, crashed, odd>>

(* onDestroy(), because it is finishing or the system needs the memory.    *)
(* The service it stops finishes all sessions.                             *)
onDestroy ==
  /\ activity = "paused"
  /\ activity' = "none"
  /\ sessions' = IF mStopServiceOnFinish THEN <<>> ELSE sessions
  /\ views' = <<>> /\ mWhichChild' = 0
  /\ connected' = FALSE /\ listening' = 0
  /\ NotStopping
  /\ UNCHANGED <<made, onResumeSelectWindow, launch, intents, chooser, crashed, odd>>

Crash ==
  /\ crashed' = TRUE
  /\ UNCHANGED <<service, term, chooser>>

(* onNewIntent(): Android pauses the activity first, and ends WindowList.  *)
NewWindow(s) ==
  \/ ~connected /\ UNCHANGED <<flipper, onResumeSelectWindow, odd>>
  \/ /\ connected
     /\ views' = Append(views, Last(sessions))
     /\ onResumeSelectWindow' = Len(sessions) - 1
     /\ odd' = odd \cup (IF Last(sessions) # s \/ s \in Elements(views)
                         THEN {"overtaken"} ELSE {})
     /\ UNCHANGED mWhichChild

onNewIntent ==
  LET intent == Head(intents)
  IN  /\ activity = "paused" /\ ~chooser /\ intents # <<>>
      /\ intents' = Tail(intents)
      /\ \/ /\ intent.action = "open" /\ (connected => sessions # <<>>)
            /\ NewWindow(intent.session)
            /\ UNCHANGED <<service, activity, connected, listening, closing, launch, chooser,
                           crashed>>
         \/ /\ intent.action = "open" /\ connected /\ sessions = <<>>
            /\ odd' = odd \cup {"overtaken"}
            /\ Crash
         \/ /\ intent.action = "switch"
            /\ onResumeSelectWindow' = intent.target
            /\ UNCHANGED <<service, activity, connected, listening, closing, flipper, launch,
                           chooser, crashed, odd>>
-----------------------------------------------------------------------------
(* What the user does.                                                     *)

(* doCreateNewWindow(), with the list of sessions known: onUpdate() is     *)
(* called before the view is added.                                        *)
doCreateNewWindow ==
  /\ made < MaxSessions
  /\ made' = made + 1
  /\ sessions' = Append(sessions, made')
  /\ views' = Append(IF listening > 0 THEN Purged(views, sessions') ELSE views, made')
  /\ mWhichChild' = Len(views') - 1

CreateWindow ==
  /\ activity = "resumed" /\ connected
  /\ doCreateNewWindow
  /\ UNCHANGED <<activity, connected, listening, closing, onResumeSelectWindow, launch,
                 intents, chooser, crashed, odd>>

SwitchTo == \E k \in 0..(Len(views) - 1) :
  /\ activity = "resumed" /\ connected
  /\ mWhichChild' = k
  /\ UNCHANGED <<service, activity, connected, listening, closing, views,
                 onResumeSelectWindow, launch, intents, chooser, crashed, odd>>

(* The place of the view at k once the views of other sessions are gone.   *)
PlaceAfter(k, ss) == Len(LiveUpTo(views, ss)[k])

(* doCloseWindow(): the view may have been removed by onUpdate() already.  *)
CloseViews(ss) ==
  LET kept == IF listening > 0 /\ ss # <<>> THEN Purged(views, ss) ELSE views
      gone == kept # views /\ views[mWhichChild + 1] \notin Elements(ss)
      place == IF kept # views THEN PlaceAfter(mWhichChild, ss) + 1 ELSE mWhichChild + 1
  IN  IF gone THEN kept ELSE RemoveAt(kept, place)

(* The session at the index of the view shown is another one: the dialog   *)
(* posts the close, which may run when the lists have drifted apart.       *)
Astray ==
  odd \cup (IF sessions[mWhichChild + 1] # views[mWhichChild + 1] THEN {"astray"} ELSE {})

doCloseWindow ==
  LET ss == RemoveAt(sessions, mWhichChild + 1)
      n == Len(views')
  IN  /\ activity # "none" /\ connected /\ views # <<>>
      /\ mWhichChild < Len(sessions)
      /\ sessions' = ss
      /\ views' = CloseViews(ss)
      /\ IF ss = <<>>
         THEN Stop("empty") /\ mWhichChild' = ShownLeft(mWhichChild, n)
         ELSE /\ mWhichChild' = ShownAfter(ShownLeft(mWhichChild, n) + 1, n)
              /\ UNCHANGED closing
      /\ odd' = Astray
      /\ UNCHANGED <<made, activity, connected, listening, onResumeSelectWindow, launch,
                     intents, chooser, crashed>>

(* There is no session where the view is: remove() throws.                 *)
doCloseWindowThrows ==
  /\ activity # "none" /\ connected /\ views # <<>>
  /\ mWhichChild >= Len(sessions)
  /\ Crash
  /\ UNCHANGED <<intents, odd>>

(* onKeyUp() for Back, as the preference has it: BACK_KEY_STOPS_SERVICE    *)
(* falls through to BACK_KEY_CLOSES_ACTIVITY.  BACK_KEY_CLOSES_WINDOW is   *)
(* doCloseWindow(), unasked; otherwise the key is the view's.              *)
BackKey ==
  /\ activity = "resumed"
  /\ Stop("asked") \/ (finishing' = TRUE /\ UNCHANGED stopping)
  /\ UNCHANGED <<service, activity, connected, listening, flipper, onResumeSelectWindow,
                 launch, intents, chooser, crashed, odd>>

(* The menu opens WindowList: Term is paused.                              *)
OpenChooser ==
  /\ activity = "paused" /\ ~chooser /\ ~finishing /\ connected
  /\ chooser' = TRUE
  /\ UNCHANGED <<service, term, intents, crashed, odd>>

(* Its close button: sessions.remove(), finish()                           *)
ChooserCloses == \E k \in 1..Len(sessions) :
  /\ chooser
  /\ onUpdate(RemoveAt(sessions, k))
  /\ UNCHANGED <<made, activity, connected, listening, onResumeSelectWindow, launch,
                 intents, chooser, crashed>>

\* mutant: the list is not looked at.
MustStop_Any == TRUE

MustStop == ~connected \/ sessions = <<>>

(* onActivityResult()                                                      *)
ResultSelect == \E k \in 1..Len(sessions) :
  /\ chooser /\ activity = "paused"
  /\ chooser' = FALSE
  /\ onResumeSelectWindow' = k - 1
  /\ UNCHANGED <<service, activity, connected, listening, closing, flipper, launch,
                 intents, crashed, odd>>

ResultCreate ==
  /\ chooser /\ activity = "paused" /\ connected
  /\ doCreateNewWindow
  /\ chooser' = FALSE
  /\ onResumeSelectWindow' = Len(sessions') - 1
  /\ UNCHANGED <<activity, connected, listening, closing, launch, intents, crashed, odd>>

(* doCreateNewWindow() does nothing without the list, the next line throws *)
ResultCreateThrows ==
  /\ chooser /\ activity = "paused" /\ ~connected
  /\ Crash
  /\ UNCHANGED <<intents, odd>>

ResultCancelled ==
  /\ chooser /\ activity = "paused"
  /\ chooser' = FALSE
  /\ IF MustStop THEN Stop(IF connected THEN "empty" ELSE "early")
                 ELSE UNCHANGED closing
  /\ UNCHANGED <<service, activity, connected, listening, flipper, onResumeSelectWindow,
                 launch, intents, crashed, odd>>
-----------------------------------------------------------------------------
Init ==
  /\ sessions = <<>> /\ made = 0
  /\ activity = "none" /\ connected = FALSE /\ listening = 0
  /\ finishing = FALSE /\ mStopServiceOnFinish = FALSE
  /\ reason = "none" /\ stoppedAt = 0
  /\ views = <<>> /\ mWhichChild = 0
  /\ onResumeSelectWindow = -1
  /\ launch = Main /\ intents = <<>>
  /\ chooser = FALSE /\ crashed = FALSE /\ odd = {}

System == onCreate \/ onServiceConnected \/ onResume \/ onPause \/ onDestroy \/ onNewIntent
User == CreateWindow \/ SwitchTo \/ doCloseWindow \/ doCloseWindowThrows \/ BackKey
Chooser == \/ OpenChooser \/ ChooserCloses
           \/ ResultSelect \/ ResultCreate \/ ResultCreateThrows \/ ResultCancelled
Others == SessionFinishes \/ openNewWindow \/ appendToWindow

Next == ~crashed /\ (System \/ User \/ Chooser \/ Others)

Spec == Init /\ [][Next]_vars
-----------------------------------------------------------------------------
(* Type invariant.                                                         *)
TypeOK ==
  /\ sessions \in Seq(1..MaxSessions) /\ made \in 0..MaxSessions
  /\ activity \in {"none", "paused", "resumed"}
  /\ connected \in BOOLEAN /\ listening \in 0..2
  /\ finishing \in BOOLEAN /\ mStopServiceOnFinish \in BOOLEAN
  /\ views \in Seq(1..MaxSessions) /\ mWhichChild \in Nat
  /\ views # <<>> => mWhichChild < Len(views)
  /\ onResumeSelectWindow \in -1..(MaxSessions - 1)
  /\ Len(intents) <= MaxIntents
  /\ chooser \in BOOLEAN /\ crashed \in BOOLEAN
  /\ reason \in {"none", "empty", "asked", "early"} /\ stoppedAt \in 0..made
  /\ odd \subseteq {"overtaken", "unseen", "astray"}

(* The user sees the windows and every intent has been dealt with.         *)
Settled ==
  activity = "resumed" /\ ~finishing /\ connected /\ intents = <<>> /\ ~crashed

(* Views and sessions are matched by their index alone                     *)
(* (getCurrentTermSession, doCloseWindow).  "New session was created, add  *)
(* an EmulatorView to match": the views are those of the sessions, in the  *)
(* same order, unless an intent to open a window found another session at  *)
(* the end of the list or a view of its own session, or a close met        *)
(* another session at the index of the view it closed.                     *)
ViewsMatchSessions ==
  Settled /\ odd \cap {"overtaken", "astray"} = {} => views = sessions

(* A screen without a window: only if the last session ended while the     *)
(* activity was not listening.                                             *)
SomethingToSee == Settled /\ sessions = <<>> => "unseen" \in odd

(* "Close the activity if user closed all sessions": without the Back key  *)
(* whose preference says so, and but for a result of the window list that  *)
(* comes before the service is connected, an activity that will stop the   *)
(* service ends no session that was there when this was decided, only ones *)
(* opened since.                                                           *)
StopsOnlyWhenEmpty ==
  mStopServiceOnFinish /\ reason \notin {"asked", "early"} =>
     \A k \in 1..Len(sessions) : sessions[k] > stoppedAt
=============================================================================
