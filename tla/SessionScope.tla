---------------------------- MODULE SessionScope ----------------------------
(***************************************************************************)
(* The browser's store (frontend workspace.js): what one session's loads    *)
(* and AI flows may still do to the screen after the user has opened        *)
(* another session or signed out.  Every task remembers the scope it        *)
(* started in; the scope is replaced, never reused.                        *)
(*                                                                         *)
(* An aborted request may have answered already, so a task of an old scope  *)
(* still gets answers.  One flow's flag and progress slot stand for each.   *)
(***************************************************************************)
EXTENDS Naturals

CONSTANTS
  Sessions, None,
  Tasks,      \* loads and flows in flight at once
  MaxScopes   \* bound: sessions opened and sign-outs

VARIABLES
  scope,      \* the current scope: its number and its session
  screen,     \* the session of the workspace shown, or None
  task,       \* task -> its place, its scope's number and session
  flag,       \* loading flag -> the task that set it last, or None
  slot        \* the task whose progress is shown, or None

vars == <<scope, screen, task, flag, slot>>

Flags == {"sessionFetch", "analysis"}
Idle == [pc |-> "idle", number |-> 0, session |-> None, flag |-> "analysis"]

Init ==
  /\ scope = [number |-> 0, session |-> None]
  /\ screen = None /\ slot = None
  /\ task = [t \in Tasks |-> Idle]
  /\ flag = [f \in Flags |-> None]

Current(t) == task[t].number = scope.number

\* wrapCall: the flag is the last task's that set it.
Begin(t, f, label, sc, flags) ==
  /\ task[t] = Idle
  /\ task' = [task EXCEPT ![t] = [pc |-> label, number |-> sc.number, session |-> sc.session, flag |-> f]]
  /\ flag' = [flags EXCEPT ![f] = t]

Cleared == [f \in Flags |-> None]

\* loadSessionById: a new scope, its flags cleared, another session's data off
\* the screen.
Open(t, x) ==
  /\ scope.number < MaxScopes
  /\ ~(scope.session = x /\ (screen = x \/ flag["sessionFetch"] # None))
  /\ scope' = [number |-> scope.number + 1, session |-> x]
  /\ screen' = IF screen = x THEN x ELSE None
  /\ slot' = None
  /\ Begin(t, "sessionFetch", "loading", scope', Cleared)

\* resetWorkspace.
SignOut ==
  /\ scope.number < MaxScopes
  /\ scope' = [number |-> scope.number + 1, session |-> None]
  /\ screen' = None /\ slot' = None
  /\ flag' = Cleared
  /\ UNCHANGED task

\* runAiFlow, on the session on screen.
Run(t) ==
  /\ screen # None /\ screen = scope.session
  /\ Begin(t, "analysis", "starting", scope, flag)
  /\ UNCHANGED <<scope, screen, slot>>

\* endLoading, in `finally`: only the flag's last owner clears it.
End(t) ==
  /\ task' = [task EXCEPT ![t] = Idle]
  /\ flag' = [flag EXCEPT ![task[t].flag] = IF @ = t THEN None ELSE @]

\* Wrong: sets what it has got.
LoadedAnyway(t) ==
  /\ task[t].pc = "loading"
  /\ screen' = task[t].session
  /\ End(t)
  /\ UNCHANGED <<scope, slot>>

\* The session's answer is shown only in its own scope (assertCurrent).
Loaded(t) ==
  /\ task[t].pc = "loading"
  /\ screen' = IF Current(t) THEN task[t].session ELSE screen
  /\ End(t)
  /\ UNCHANGED <<scope, slot>>

\* The job is started, and shown; or its output was there already.
Started(t) ==
  /\ task[t].pc = "starting"
  /\ \/ Current(t) /\ slot' = t /\ task' = [task EXCEPT ![t].pc = "polling"] /\ UNCHANGED flag
     \/ End(t) /\ UNCHANGED slot
  /\ UNCHANGED <<scope, screen>>

\* A poll's answer, still in flight: the slot shows the last task that polled.
Polled(t) ==
  /\ task[t].pc = "polling" /\ Current(t)
  /\ slot' = t
  /\ UNCHANGED <<scope, screen, task, flag>>

\* The poll ends, with a result or an error.
PollEnds(t) ==
  /\ task[t].pc = "polling"
  /\ slot' = IF Current(t) THEN None ELSE slot
  /\ End(t)
  /\ UNCHANGED <<scope, screen>>

\* Any request fails, the aborted ones included.
Fails(t) ==
  /\ task[t].pc \in {"loading", "starting"}
  /\ End(t)
  /\ UNCHANGED <<scope, screen, slot>>

Next ==
  \/ SignOut
  \/ \E t \in Tasks : \/ Run(t) \/ Loaded(t) \/ Started(t) \/ Polled(t) \/ PollEnds(t) \/ Fails(t)
                      \/ \E x \in Sessions : Open(t, x)

Spec == Init /\ [][Next]_vars

\* The screen never shows another session than the one opened last, and no
\* flag is on but by a task still at work for that session.
ScreenIsCurrent ==
  /\ screen \in {None, scope.session}
  /\ \A f \in Flags : flag[f] # None =>
       task[flag[f]].pc # "idle" /\ Current(flag[f])
  /\ slot # None => task[slot].pc = "polling" /\ Current(slot)
=============================================================================
