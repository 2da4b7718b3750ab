------------------------------ MODULE SchedulerTick ------------------------------
(***************************************************************************)
(* One worker process: a tick reads the time once, runs the matchmaker of  *)
(* every round that is due, and applies ratings until none is ready. The   *)
(* first error ends the tick. Each step is a transaction of its own, so    *)
(* that a tick interleaves with requests and with commands run by hand.    *)
(***************************************************************************)
EXTENDS RankedQueue, RatingLedger

CONSTANT Idle

VARIABLE worker   \* Idle, or the time of the tick and the rounds still due

-----------------------------------------------------------------------------
(* Mutated form: a round stays due after its start.                        *)
DueForGood(at) == {r \in Rounds : QueueCloseAt[r] <= at}

(* The domain of a round is not looked at.                                 *)
DueRankedRounds(at) == {r \in Rounds : QueueCloseAt[r] <= at /\ at < StartAt[r]}

FirstDue(due) ==
    LeastBy(due, LAMBDA r, q : \/ QueueCloseAt[r] < QueueCloseAt[q]
                               \/ QueueCloseAt[r] = QueueCloseAt[q] /\ r <= q)

(* A tick that finds nothing to do is left out: it changes no row.         *)
StartTick ==
    /\ worker = Idle
    /\ DueRankedRounds(now) # {} \/ \E b \in Battles : HeadOfLine(b)
    /\ worker' = [at |-> now, due |-> DueRankedRounds(now)]
    /\ UNCHANGED tableVars

(* A round outside the matchmaker's window is an error: the tick is over.  *)
MatchDueRound ==
    /\ worker # Idle
    /\ worker.due # {}
    /\ LET r == FirstDue(worker.due)
       IN  \/ /\ RunMatchmaker(r, worker.at)
              /\ worker' = [worker EXCEPT !.due = @ \ {r}]
           \/ /\ ReturnMatchRun(r, worker.at)
              /\ worker' = [worker EXCEPT !.due = @ \ {r}]
           \/ /\ ~ MatchmakerWindow(r, worker.at)
              /\ worker' = Idle
              /\ UNCHANGED tableVars

(* Nothing is ready, or the battle that is ready is an error.              *)
ApplyRatings ==
    /\ worker # Idle
    /\ worker.due = {}
    /\ \/ ApplyNext(worker.at) /\ UNCHANGED worker
       \/ /\ \A b \in Battles : HeadOfLine(b) => Poisoned(b)
          /\ worker' = Idle
          /\ UNCHANGED tableVars

(* The process is stopped between two transactions, or has made as many    *)
(* rating updates as a tick may.                                           *)
StopTick ==
    /\ worker # Idle
    /\ worker' = Idle
    /\ UNCHANGED tableVars

RunOnce == StartTick \/ MatchDueRound \/ ApplyRatings

=============================================================================
