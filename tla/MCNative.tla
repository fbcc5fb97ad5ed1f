--------------------------- MODULE MCNative ---------------------------
(***************************************************************************)
(* The programs in C: the relay, the terminal client of one connection,    *)
(* and the processor with its driver.  The three models share no state,    *)
(* and one run checks them: the initial state says which one a behaviour   *)
(* is about, and only that one takes steps.                                *)
(***************************************************************************)
EXTENDS RelayServer, Sequences

CONSTANTS
    MaxInputs, MaxDeliveries,    \* TerminalClient
    Calls, NoCall, Blank, Torn   \* Processing

ASSUME InputsAssumption == MaxInputs \in Nat

VARIABLES
    part,
    requests, responses, server, main, receiver, running, ack, ackReady, nextId, shut, inputs,
    deliveries, served,
    thread, lock, response, copy, outcome, overlap

Client == INSTANCE TerminalClient
Processor == INSTANCE Processing

clientVars == <<requests, responses, server, main, receiver, running, ack, ackReady, nextId, shut,
                inputs, deliveries, served>>
processorVars == <<thread, lock, response, copy, outcome, overlap>>
partVars == <<part, vars, clientVars, processorVars>>

PartsInit ==
    /\ part \in {"relay", "processor", "client"}
    /\ Init /\ Client!Init /\ Processor!Init

RelayPart == part = "relay" /\ Next /\ UNCHANGED <<part, clientVars, processorVars>>
ProcessorPart == part = "processor" /\ Processor!Next /\ UNCHANGED <<part, vars, clientVars>>
ClientPart == part = "client" /\ Client!Next /\ UNCHANGED <<part, vars, processorVars>>

PartsNext == RelayPart \/ ProcessorPart \/ ClientPart

\* The fairness of each component, for the behaviours that are about it.
PartsFairness ==
    /\ \A t \in Conns : /\ WF_vars(part = "relay" /\ ThreadStep(t))
                        /\ SF_vars(part = "relay" /\ EndOfStream(t))
    /\ \A j \in Calls : /\ WF_processorVars(part = "processor" /\ Processor!ThreadStep(j))
                        /\ SF_processorVars(part = "processor" /\ Processor!WriteLock(j))
                        /\ WF_processorVars(part = "processor" /\ Processor!Timeout(j))
    /\ WF_clientVars(part = "client" /\ Client!MainStep)
    /\ WF_clientVars(part = "client" /\ Client!ReceiverStep)
    /\ WF_clientVars(part = "client" /\ Client!ServerStep)

PartsSpec == PartsInit /\ [][PartsNext]_partVars /\ PartsFairness

-----------------------------------------------------------------------------
\* What the terminal reports about a request is what the server did with that
\* request, although deliveries come in between.
AnswerIsTrue == Client!AnswerIsTrue

\* The terminal client never signs in or registers on a connection that the
\* server has signed in.
NoSecondLogin == Client!NoSecondLogin

\* The terminal's main thread comes back to a prompt or the program ends, however
\* the server, the connection and the receiver thread behave.
BackToPrompt == Client!BackToPrompt

\* As long as no two threads use the device at the same time, every processing call
\* gets its own result, whatever calls came before and failed or timed out.
SoloAnswersMatch == Processor!SoloAnswersMatch

\* Every processing call settles, even when its answer is lost.
EveryCallSettles == Processor!EveryCallSettles
===============================================================================
