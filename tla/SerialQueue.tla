---------------------------- MODULE SerialQueue ----------------------------
(***************************************************************************)
(* What the asynchronous replan queue promises to the rest of the engine   *)
(* (the ReplanQueue interface and its comments in                          *)
(* internal/app/replan_queue.go): one FIFO of jobs per plan, at most one   *)
(* job of a plan running at a time, and no second acceptance of a signal   *)
(* while it is among the last MaxSeen accepted ones.                       *)
(*                                                                         *)
(* A job is named by its signal: Enqueue never sees two jobs of the same   *)
(* signal with different plans, because a signal belongs to one goal and   *)
(* a goal's plan never changes.                                            *)
(***************************************************************************)
EXTENDS Naturals, Sequences

CONSTANTS Plans,     \* plan ids
          Signals,   \* signal ids
          NoSignal,  \* "no job"
          MaxSeen,   \* size of the idempotency window (MemoryQueue.maxSeen)
          PlanOf     \* the plan of a signal's job

VARIABLES backlog,   \* per plan, the accepted jobs that have not begun
          running,   \* per plan, the job whose handler is running
          window,    \* the last MaxSeen accepted signals, oldest first
          open       \* FALSE once Shutdown was called

qvars == <<backlog, running, window, open>>

-----------------------------------------------------------------------------
\* The window after one more signal: over the cap, the oldest leaves.
Slide(w, s) == IF Len(w) < MaxSeen THEN Append(w, s) ELSE Append(Tail(w), s)

Remembered(w, s) == \E i \in DOMAIN w : w[i] = s

QInit ==
  /\ backlog = [p \in Plans |-> <<>>]
  /\ running = [p \in Plans |-> NoSignal]
  /\ window = <<>>
  /\ open = TRUE

\* A job is accepted: it goes to the end of its plan's backlog.
Accept(s) ==
  /\ open
  /\ ~Remembered(window, s)
  /\ backlog' = [backlog EXCEPT ![PlanOf[s]] = Append(@, s)]
  /\ window' = Slide(window, s)
  /\ UNCHANGED <<running, open>>

\* The oldest job of an idle plan begins.
Begin(p) ==
  /\ running[p] = NoSignal
  /\ backlog[p] # <<>>
  /\ running' = [running EXCEPT ![p] = Head(backlog[p])]
  /\ backlog' = [backlog EXCEPT ![p] = Tail(@)]
  /\ UNCHANGED <<window, open>>

\* The handler of the plan's job returned, failed or panicked.
End(p) ==
  /\ running[p] # NoSignal
  /\ running' = [running EXCEPT ![p] = NoSignal]
  /\ UNCHANGED <<backlog, window, open>>

Close ==
  /\ open
  /\ open' = FALSE
  /\ UNCHANGED <<backlog, running, window>>

QNext ==
  \/ \E s \in Signals : Accept(s)
  \/ \E p \in Plans : Begin(p) \/ End(p)
  \/ Close

QSpec == QInit /\ [][QNext]_qvars
=============================================================================
