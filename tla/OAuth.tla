------------------------------- MODULE OAuth --------------------------------
(***************************************************************************)
(* One OAuth connection, refreshed at once by web requests (auth.py) and    *)
(* worker jobs (oauth_client.py) over its row (db.py).  Each reads the row, *)
(* asks Livestorm for new tokens with the refresh token it has read, and    *)
(* writes what it got, with no lock between them.                          *)
(*                                                                         *)
(* Livestorm is external: it accepts its latest refresh token only, and     *)
(* either renews it with every answer or never sends another.  Tokens are   *)
(* numbered as they are issued.                                             *)
(***************************************************************************)
EXTENDS Naturals

CONSTANTS
  Refreshers, \* requests and jobs that need the token at once
  MaxTokens   \* bound: refresh tokens Livestorm issues, a natural number

NoRow == MaxTokens + 1
Tokens == 0..MaxTokens

VARIABLES
  stored,   \* the row's refresh token, or NoRow
  stale,    \* its access token expires within five minutes
  rotates,  \* Livestorm renews the refresh token with every answer
  live,     \* the refresh token Livestorm accepts
  proc,     \* refresher -> its place, the token it has read, the one it got
  lost      \* an answer of Livestorm never reached the row

vars == <<stored, stale, rotates, live, proc, lost>>

Idle == [pc |-> "idle", read |-> 0, got |-> 0]

Init ==
  /\ rotates \in BOOLEAN
  /\ stored = 0 /\ live = 0 /\ stale = FALSE /\ lost = FALSE
  /\ proc = [p \in Refreshers |-> Idle]

\* A sign-in keeps a connection of its own; a logout deletes this one.
Logout ==
  /\ stored # NoRow
  /\ stored' = NoRow
  /\ UNCHANGED <<rotates, stale, live, proc, lost>>

AccessExpires ==
  /\ ~stale
  /\ stale' = TRUE
  /\ UNCHANGED <<rotates, stored, live, proc, lost>>

\* refresh_connection_if_needed: a row that is gone or not stale is answered
\* as it is.
ReadRow(p) ==
  /\ proc[p].pc = "idle"
  /\ stored # NoRow /\ stale
  /\ proc' = [proc EXCEPT ![p] = [Idle EXCEPT !.pc = "exchange", !.read = stored]]
  /\ UNCHANGED <<rotates, stored, stale, live, lost>>

\* Livestorm refuses a token it has replaced: the caller is signed out
\* (resolve_connection), the job fails (livestorm_auth_for_job).
Refused(p) ==
  /\ proc[p].pc = "exchange"
  /\ proc' = [proc EXCEPT ![p] = Idle]
  /\ UNCHANGED <<rotates, stored, stale, live, lost>>

\* Wrong: an answer without a refresh token leaves none in use (the last one
\* stands for none).
RenewedOrNone(token) == IF rotates THEN token + 1 ELSE MaxTokens

\* The refresh token to keep: the answer's, or else the one that was sent.
Renewed(token) == IF rotates THEN token + 1 ELSE token

\* The tokens are exchanged.
Exchange(p) ==
  /\ proc[p].pc = "exchange" /\ proc[p].read = live
  /\ rotates => live < MaxTokens
  /\ live' = IF rotates THEN live + 1 ELSE live
  /\ proc' = [proc EXCEPT ![p].pc = "write", ![p].got = Renewed(live)]
  /\ UNCHANGED <<rotates, stored, stale, lost>>

\* update_oauth_connection_tokens: the row as it is by now, if any.
WriteRow(p) ==
  /\ proc[p].pc = "write"
  /\ stored' = IF stored = NoRow THEN NoRow ELSE proc[p].got
  /\ stale' = FALSE
  /\ proc' = [proc EXCEPT ![p] = Idle]
  /\ UNCHANGED <<rotates, live, lost>>

\* The answer is lost, the write fails, or the process dies in between.
Die(p) ==
  /\ proc[p].pc = "write"
  /\ proc' = [proc EXCEPT ![p] = Idle]
  /\ lost' = TRUE
  /\ UNCHANGED <<rotates, stored, stale, live>>

Next ==
  \/ Logout \/ AccessExpires
  \/ \E p \in Refreshers : ReadRow(p) \/ Refused(p) \/ Exchange(p) \/ WriteRow(p) \/ Die(p)

Spec == Init /\ [][Next]_vars

TypeOK ==
  /\ stored \in Tokens \cup {NoRow} /\ live \in Tokens
  /\ rotates \in BOOLEAN /\ stale \in BOOLEAN /\ lost \in BOOLEAN
  /\ proc \in [Refreshers -> [pc : {"idle", "exchange", "write"}, read : Tokens, got : Tokens]]

\* Whoever refreshes at the same time, the row of a live connection never ends
\* up with a token Livestorm has replaced: the accepted one is in the row, or
\* with the one refresher about to write it.
LiveTokenKept ==
  \/ lost \/ stored \in {NoRow, live}
  \/ \E p \in Refreshers : /\ proc[p].pc = "write" /\ proc[p].got = live
                           /\ \A q \in Refreshers \ {p} : proc[q].pc # "write"
=============================================================================
