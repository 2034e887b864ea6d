------------------------------ MODULE MsmPcom -------------------------------
(* Library/MsmPcomLib/pcom.c: the mailbox in shared memory through which    *)
(* the firmware has the modem do things.  There is one mailbox, no lock,    *)
(* and callers at two task priority levels; a caller at the higher level    *)
(* runs to its end between any two steps of one at the lower level.         *)
(* The modem is external.                                                   *)
EXTENDS Naturals, Sequences

CONSTANTS
  PcomLevels,     \* task priority levels that call
  MaxFails        \* bound: commands the modem fails

ASSUME PcomAssumption == PcomLevels \subseteq Nat /\ MaxFails \in Nat

VARIABLES
  mbox,       \* APP_COMMAND, APP_DATA1, APP_DATA2, APP_STATUS; of: whose reply
  modem,      \* rung: the doorbell; busy; fails: failures so far
  pcomCall    \* level -> the msm_proc_comm call that stands there

pcomVars == <<mbox, modem, pcomCall>>

PCOM_CMD_IDLE == "idle"
PCOM_CMD_DONE == "done"
PCOM_CMD_FAIL == "fail"

\* PCOM_CMD_FAIL, and one that stands for the failures with a status of their own.
PcomFailures == {PCOM_CMD_FAIL, "locked"}

\* cell: the entry of ClocksLookup that is the call's in-out argument, or "";
\* retry: the caller repeats until the status is good; dirty: a call at a
\* higher level has come in between; todo: the calls its caller makes next.
NoPcomCall == [cmd |-> "none", d1 |-> 0, d2 |-> 0, cell |-> "", retry |-> FALSE,
               at |-> "end", ok |-> FALSE, dirty |-> FALSE, todo |-> <<>>]

Request(cmd, d1, d2) == [NoPcomCall EXCEPT !.cmd = cmd, !.d1 = d1, !.d2 = d2, !.at = "ready"]

InTurn(requests) == [requests[1] EXCEPT !.todo = Tail(requests)]

PcomRuns(l) == \A k \in PcomLevels : k > l => pcomCall[k] = NoPcomCall

\* A caller at l starts its calls; those that stand below have been cut into.
msm_proc_comm(l, requests) ==
  /\ \A k \in PcomLevels : k >= l => pcomCall[k] = NoPcomCall
  /\ pcomCall' = [k \in PcomLevels |->
       IF k = l THEN InTurn(requests)
       ELSE IF pcomCall[k] = NoPcomCall THEN NoPcomCall
            ELSE [pcomCall[k] EXCEPT !.dirty = TRUE]]
  /\ UNCHANGED <<mbox, modem>>

Moves(l, from, to) ==
  /\ PcomRuns(l)
  /\ pcomCall[l].at = from
  /\ pcomCall' = [pcomCall EXCEPT ![l].at = to]

\* pcom_wait_for(MDM_STATUS, PCOM_READY), then the command.
WritesCommand(l) ==
  /\ Moves(l, "ready", "data")
  /\ ~modem.busy
  /\ mbox' = [mbox EXCEPT !.command = pcomCall[l].cmd]
  /\ UNCHANGED modem

WritesData(l) ==
  /\ Moves(l, "data", "ring")
  /\ mbox' = [mbox EXCEPT !.data1 = pcomCall[l].d1, !.data2 = pcomCall[l].d2]
  /\ UNCHANGED modem

notify_modem(l) ==
  /\ Moves(l, "ring", "done")
  /\ modem' = [modem EXCEPT !.rung = TRUE]
  /\ UNCHANGED mbox

\* Mutant: the answer is not waited for.
ReadsStatusAtOnce(l) ==
  /\ PcomRuns(l)
  /\ pcomCall[l].at = "done"
  /\ pcomCall' = [pcomCall EXCEPT ![l].at = "reply", ![l].ok = mbox.status # PCOM_CMD_FAIL]
  /\ UNCHANGED <<mbox, modem>>

\* pcom_wait_for(APP_COMMAND, PCOM_CMD_DONE), then the status: of the failures,
\* the call knows one.
ReadsStatus(l) ==
  /\ PcomRuns(l)
  /\ pcomCall[l].at = "done"
  /\ mbox.command = PCOM_CMD_DONE
  /\ pcomCall' = [pcomCall EXCEPT ![l].at = "reply", ![l].ok = mbox.status # PCOM_CMD_FAIL]
  /\ UNCHANGED <<mbox, modem>>

\* The in-out arguments take the reply.
ReadsReply(l) ==
  /\ PcomRuns(l)
  /\ pcomCall[l].at = "reply"
  /\ pcomCall' = [pcomCall EXCEPT ![l].at = "leave",
                    ![l].d1 = IF pcomCall[l].ok THEN mbox.data1 ELSE @,
                    ![l].d2 = IF pcomCall[l].ok THEN mbox.data2 ELSE @]
  /\ UNCHANGED <<mbox, modem>>

Leaves(l) ==
  /\ Moves(l, "leave", "check")
  /\ mbox' = [mbox EXCEPT !.command = PCOM_CMD_IDLE]
  /\ UNCHANGED modem

\* Mutant: a caller that should retry does not.
RetriesNever(l) == FALSE

\* The callers that retry read the status register once more; the others and
\* those content with it return.
Retries(l) == pcomCall[l].retry /\ mbox.status # "success"

Returns(l) ==
  /\ PcomRuns(l)
  /\ pcomCall[l].at = "check"
  /\ pcomCall' = [pcomCall EXCEPT ![l] =
       IF Retries(l) THEN [@ EXCEPT !.at = "ready"]
       ELSE IF @.todo = <<>> THEN NoPcomCall
       ELSE [InTurn(@.todo) EXCEPT !.dirty = pcomCall[l].dirty]]
  /\ UNCHANGED <<mbox, modem>>

-----------------------------------------------------------------------------
(* The modem (external).  It answers the doorbell by doing what the mailbox *)
(* then says, and ignores a mailbox that holds no command.                  *)

ModemTakes ==
  /\ modem.rung /\ ~modem.busy
  /\ modem' = [modem EXCEPT !.rung = FALSE,
                 !.busy = mbox.command \notin {PCOM_CMD_IDLE, PCOM_CMD_DONE}]
  /\ UNCHANGED <<mbox, pcomCall>>

ModemAnswers(status) ==
  /\ modem.busy
  /\ modem' = [modem EXCEPT !.busy = FALSE,
                 !.fails = IF status \in PcomFailures THEN @ + 1 ELSE @]
  /\ mbox' = [mbox EXCEPT !.command = PCOM_CMD_DONE, !.status = status,
                !.of = <<mbox.command, mbox.data1>>]
  /\ UNCHANGED pcomCall

PcomInit ==
  /\ mbox = [command |-> PCOM_CMD_IDLE, data1 |-> 0, data2 |-> 0,
             status |-> "none", of |-> <<>>]
  /\ modem = [rung |-> FALSE, busy |-> FALSE, fails |-> 0]
  /\ pcomCall = [l \in PcomLevels |-> NoPcomCall]
=============================================================================
