------------------------------ MODULE Processing ------------------------------
(***************************************************************************)
(* Remote processing of messages and passwords: a backend call opens a TCP *)
(* connection (exchange), the processor daemon serves it in a thread of    *)
(* its own, and the thread writes the request to /dev/chat and reads the   *)
(* answer back.  The driver keeps one global response: chat_write fills it *)
(* under a mutex, chat_read copies it without.                             *)
(*                                                                         *)
(* A call j asks for the transformation of its own input; that result is   *)
(* written j itself.  Blank is an empty payload, Torn one that was copied  *)
(* while it was being written.                                             *)
(***************************************************************************)
EXTENDS Naturals, FiniteSets

CONSTANTS
    Calls,    \* calls of encryptForStorage, decryptForDisplay, hashPassword
    NoCall,   \* no thread
    Blank, Torn  \* as NoCall, values that are no calls

VARIABLES
    thread,    \* thread[j]: where the daemon's thread for call j is.  idle: not connected;
               \* write: waits for the mutex; filling, filled: in chat_write; readId,
               \* readPayload: in chat_read; reply: device closed; failed: answers with
               \* an error; lost: the connection is gone; done
    lock,      \* chat_lock: the thread that holds it, or NoCall
    response,  \* last_response: whose message_id, and which payload
    copy,      \* copy[j]: the response as the thread of j has copied it
    outcome,   \* outcome[j]: how the promise of call j settled
    overlap    \* history: two threads used the device at the same time

vars == <<thread, lock, response, copy, outcome, overlap>>

Cleared == [id |-> NoCall, payload |-> Blank]

NotCalled == [state |-> "none", payload |-> Blank]
Pending == [state |-> "pending", payload |-> Blank]
Rejected == [state |-> "error", payload |-> Blank]
Resolved(v) == [state |-> "ok", payload |-> v]

Init ==
    /\ thread = [j \in Calls |-> "idle"]
    /\ lock = NoCall
    /\ response = Cleared
    /\ copy = [j \in Calls |-> Cleared]
    /\ outcome = [j \in Calls |-> NotCalled]
    /\ overlap = FALSE

InDevice(j) == thread[j] \in {"write", "filling", "filled", "readId", "readPayload"}

Move(j, pc) == thread' = [thread EXCEPT ![j] = pc]

-----------------------------------------------------------------------------
(* processor_client_main and device_process_message *)

\* The request arrives; the daemon refuses it (processor_validate_request,
\* or the device cannot be opened) or opens the device.
Submit(j) ==
    /\ outcome[j] = NotCalled
    /\ outcome' = [outcome EXCEPT ![j] = Pending]
    /\ \/ Move(j, "failed") /\ UNCHANGED overlap
       \/ Move(j, "lost") /\ UNCHANGED overlap
       \/ Move(j, "write") /\ overlap' = (overlap \/ \E k \in Calls : InDevice(k))
    /\ UNCHANGED <<lock, response, copy>>

\* Mutant: a write that failed is not noticed.
SkipWrite(j) ==
    /\ thread[j] = "write"
    /\ Move(j, "readId")
    /\ UNCHANGED <<lock, response, copy, outcome, overlap>>

\* chat_write: mutex_lock, then both buffers are cleared.
WriteLock(j) ==
    /\ thread[j] = "write"
    /\ lock = NoCall
    /\ lock' = j
    /\ response' = Cleared
    /\ Move(j, "filling")
    /\ UNCHANGED <<copy, outcome, overlap>>

\* copy_from_user fails: the mutex is released over a cleared response and the
\* daemon answers that the device failed.
WriteFault(j) ==
    /\ thread[j] = "filling"
    /\ lock' = NoCall
    /\ Move(j, "failed")
    /\ UNCHANGED <<response, copy, outcome, overlap>>

\* The request is copied in and the header of the response is set.
WriteHeader(j) ==
    /\ thread[j] = "filling"
    /\ response' = [response EXCEPT !.id = j]
    /\ Move(j, "filled")
    /\ UNCHANGED <<lock, copy, outcome, overlap>>

\* The payload is transformed into place, and the mutex released.
WritePayload(j) ==
    /\ thread[j] = "filled"
    /\ response' = [response EXCEPT !.payload = j]
    /\ lock' = NoCall
    /\ Move(j, "readId")
    /\ UNCHANGED <<copy, outcome, overlap>>

\* chat_read copies the structure while others may write to it: first the
\* header ...
ReadId(j) ==
    /\ thread[j] = "readId"
    /\ copy' = [copy EXCEPT ![j].id = response.id]
    /\ Move(j, "readPayload")
    /\ UNCHANGED <<lock, response, outcome, overlap>>

\* ... then the payload, which a writer may be half-way through.
ReadPayload(j) ==
    /\ thread[j] = "readPayload"
    /\ \E v \in {response.payload} \cup
                (IF \E k \in Calls : thread[k] \in {"filling", "filled"} THEN {Torn, Blank} ELSE {}) :
          copy' = [copy EXCEPT ![j].payload = v]
    /\ Move(j, "reply")
    /\ UNCHANGED <<lock, response, outcome, overlap>>

-----------------------------------------------------------------------------
(* exchange and processRemote: the first event to arrive settles the promise *)

\* A promise takes the first value it is given.  (That is the language's; settled and
\* cleanup spare the later events.)
Settle(j, result) ==
    outcome' = IF outcome[j] = Pending THEN [outcome EXCEPT ![j] = result] ELSE outcome

\* The whole response is received: its status is STATUS_OK, which is also what
\* a cleared response holds, and its message_id is not looked at.
Receive(j) ==
    /\ thread[j] = "reply"
    /\ Settle(j, Resolved(copy[j].payload))
    /\ Move(j, "done")
    /\ UNCHANGED <<lock, response, copy, overlap>>

\* A response that reports a failure is received, or the connection is closed
\* or broken before a response is complete.
ReceiveError(j) ==
    /\ thread[j] = "failed"
    /\ Settle(j, Rejected)
    /\ Move(j, "done")
    /\ UNCHANGED <<lock, response, copy, overlap>>

\* The daemon dies between two system calls (writing to a socket the backend
\* has destroyed raises SIGPIPE), or its answer is lost on the way.
Lose(j) ==
    /\ thread[j] \in {"readId", "readPayload", "reply", "failed"}
    /\ Move(j, "lost")
    /\ UNCHANGED <<lock, response, copy, outcome, overlap>>

\* Mutant: no timeout once the daemon has the request.
TimeoutIdleOnly(j) ==
    /\ outcome[j] = Pending
    /\ thread[j] = "write"
    /\ Settle(j, Rejected)
    /\ UNCHANGED <<thread, lock, response, copy, overlap>>

\* setTimeout fires before the response: the thread goes on by itself.
Timeout(j) ==
    /\ outcome[j] = Pending
    /\ Settle(j, Rejected)
    /\ UNCHANGED <<thread, lock, response, copy, overlap>>

ThreadStep(j) ==
    \/ WriteLock(j) \/ WriteFault(j) \/ WriteHeader(j) \/ WritePayload(j)
    \/ ReadId(j) \/ ReadPayload(j) \/ Receive(j) \/ ReceiveError(j)

\* Every call has been made and every thread has ended.
Over == (\A j \in Calls : thread[j] \in {"done", "lost"} /\ outcome[j] # Pending) /\ UNCHANGED vars

Next == (\E j \in Calls : Submit(j) \/ ThreadStep(j) \/ Lose(j) \/ Timeout(j)) \/ Over

\* The daemon's threads run (the mutex is fair enough to be obtained) and the
\* socket's timer fires.
Fairness == \A j \in Calls : WF_vars(ThreadStep(j)) /\ SF_vars(WriteLock(j)) /\ WF_vars(Timeout(j))

Spec == Init /\ [][Next]_vars /\ Fairness

-----------------------------------------------------------------------------
\* Every result returned to a caller is the result of that caller's own input:
\* input messages and results correspond one to one.
AnswersMatch == \A j \in Calls : outcome[j].state = "ok" => outcome[j].payload = j

\* As long as no two threads use the device at the same time, every caller gets
\* its own result, whatever calls came before and failed or timed out.
SoloAnswersMatch == ~overlap => AnswersMatch

\* Every call settles, even when its answer is lost.
EveryCallSettles == \A j \in Calls : outcome[j] = Pending ~> outcome[j] # Pending
=============================================================================
