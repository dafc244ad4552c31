---------------------------- MODULE ConfigSigner ----------------------------
(***************************************************************************)
(* TimeoutConfigSigner: callers hand messages over unbuffered channels to  *)
(* one worker, which calls the provider. Each call has a deadline, Close   *)
(* ends everybody, and a provider may ignore cancellation and return late  *)
(* or never.                                                               *)
(*                                                                         *)
(* For any number of callers and calls, with deadlines, Close and a        *)
(* provider that answers late, a caller only ever gets the signature of    *)
(* the message of its current call.                                        *)
(***************************************************************************)
EXTENDS Naturals

CONSTANTS Callers,
          MaxCalls     \* bound on the calls of one caller

VARIABLES
    caller,    \* where each caller is: its call, deadline and last result
    worker,    \* the goroutine of run
    closed,    \* the flag closed
    done       \* the channel done is closed

vars == <<caller, worker, closed, done>>

NoCall == [caller |-> "none", call |-> 0]

Message(c) == [caller |-> c, call |-> caller[c].call]

Init ==
    /\ caller = [c \in Callers |->
                   [at |-> "idle", call |-> 0, expired |-> FALSE, result |-> NoCall]]
    /\ worker = [at |-> "select", request |-> NoCall, signed |-> NoCall]
    /\ closed = FALSE
    /\ done = FALSE

Returned(c, result) ==
    caller' = [caller EXCEPT ![c].at = "idle", ![c].result = result]

-----------------------------------------------------------------------------
(* Sign                                                                    *)

SignBegin(c) ==
    /\ caller[c].at = "idle"
    /\ caller[c].call < MaxCalls
    /\ caller' = [caller EXCEPT ![c] =
                    [at |-> IF closed THEN "idle" ELSE "offer", call |-> @.call + 1,
                     expired |-> FALSE, result |-> NoCall]]
    /\ UNCHANGED <<worker, closed, done>>

Expire(c) ==
    /\ caller[c].at \in {"offer", "wait"}
    /\ ~caller[c].expired
    /\ caller' = [caller EXCEPT ![c].expired = TRUE]
    /\ UNCHANGED <<worker, closed, done>>

(* The caller's select and the worker's meet.                              *)
HandOver(c) ==
    /\ caller[c].at = "offer"
    /\ worker.at = "select"
    /\ caller' = [caller EXCEPT ![c].at = "wait"]
    /\ worker' = [worker EXCEPT !.at = "check", !.request = Message(c)]
    /\ UNCHANGED <<closed, done>>

GiveUpOffer(c) ==
    /\ caller[c].at = "offer"
    /\ done \/ caller[c].expired
    /\ Returned(c, NoCall)
    /\ UNCHANGED <<worker, closed, done>>

GiveUpWait(c) ==
    /\ caller[c].at = "wait"
    /\ done \/ caller[c].expired
    /\ Returned(c, NoCall)
    /\ UNCHANGED <<worker, closed, done>>

-----------------------------------------------------------------------------
(* run                                                                     *)

WorkerCheck ==
    /\ worker.at = "check"
    /\ worker' = [worker EXCEPT !.at = IF closed THEN "select" ELSE "provider"]
    /\ UNCHANGED <<caller, closed, done>>

(* The provider returns a signature of the message, or fails.              *)
ProviderReturns ==
    /\ worker.at = "provider"
    /\ \E ok \in BOOLEAN :
         worker' = [worker EXCEPT !.at = "reply",
                                  !.signed = IF ok THEN worker.request ELSE NoCall]
    /\ UNCHANGED <<caller, closed, done>>

(* Mutant: one result channel for all calls.                               *)
DeliverShared(c) ==
    /\ worker.at = "reply"
    /\ caller[c].at = "wait"
    /\ Returned(c, worker.signed)
    /\ worker' = [worker EXCEPT !.at = "select"]
    /\ UNCHANGED <<closed, done>>

(* Each request has its own result channel.                                *)
Deliver(c) ==
    /\ worker.at = "reply"
    /\ caller[c].at = "wait"
    /\ worker.request = Message(c)
    /\ Returned(c, worker.signed)
    /\ worker' = [worker EXCEPT !.at = "select"]
    /\ UNCHANGED <<closed, done>>

(* The call has its deadline passed, or has returned and cancelled its     *)
(* context, or the signer is closed.                                       *)
Gone(m) ==
    /\ m # NoCall
    /\ \/ caller[m.caller].call # m.call
       \/ caller[m.caller].at = "idle"
       \/ caller[m.caller].expired

Drop ==
    /\ worker.at = "reply"
    /\ done \/ Gone(worker.request)
    /\ worker' = [worker EXCEPT !.at = "select"]
    /\ UNCHANGED <<caller, closed, done>>

WorkerStop ==
    /\ worker.at = "select"
    /\ done
    /\ worker' = [worker EXCEPT !.at = "stopped"]
    /\ UNCHANGED <<caller, closed, done>>

-----------------------------------------------------------------------------
(* Close, once                                                             *)

CloseFlag ==
    /\ ~closed
    /\ closed' = TRUE
    /\ UNCHANGED <<caller, worker, done>>

CloseDone ==
    /\ closed /\ ~done
    /\ done' = TRUE
    /\ UNCHANGED <<caller, worker, closed>>

-----------------------------------------------------------------------------
Next ==
    \/ \E c \in Callers :
         \/ SignBegin(c) \/ Expire(c) \/ HandOver(c) \/ GiveUpOffer(c) \/ GiveUpWait(c)
         \/ Deliver(c)
    \/ WorkerCheck \/ ProviderReturns \/ Drop \/ WorkerStop
    \/ CloseFlag \/ CloseDone

(* Timers fire, goroutines that can go on do, and a Close that began ends; *)
(* nothing is assumed of the provider.                                     *)
Spec ==
    /\ Init /\ [][Next]_vars
    /\ \A c \in Callers :
         /\ WF_vars(Expire(c))
         /\ WF_vars(GiveUpOffer(c) \/ GiveUpWait(c))
    /\ WF_vars(WorkerCheck)
    /\ WF_vars(\E c \in Callers : Deliver(c) \/ HandOver(c))
    /\ WF_vars(Drop)
    /\ WF_vars(WorkerStop)
    /\ WF_vars(CloseDone)

-----------------------------------------------------------------------------
(* Properties                                                              *)

Calls == {NoCall} \cup [caller : Callers, call : 1..MaxCalls]

TypeOK ==
    /\ caller \in [Callers -> [at : {"idle", "offer", "wait"}, call : 0..MaxCalls,
                               expired : BOOLEAN, result : Calls]]
    /\ worker \in [at : {"select", "check", "provider", "reply", "stopped"}, request : Calls,
                   signed : Calls]
    /\ worker.at \in {"check", "provider", "reply"} => worker.request # NoCall
    /\ closed \in BOOLEAN /\ done \in BOOLEAN

(* A caller never gets the signature of another message: not one that the  *)
(* provider returned after the deadline of an earlier call.                *)
SignaturesAreOwn ==
    \A c \in Callers : caller[c].result # NoCall => caller[c].result = Message(c)

(* Every call returns, also while the provider is stuck in another one.    *)
CallsReturn ==
    \A c \in Callers : caller[c].at # "idle" ~> caller[c].at = "idle"

(* After Close the worker ends, or it is stuck in the provider.            *)
WorkerEnds == done ~> [](worker.at \in {"stopped", "provider"})

(* A provider that returns late has its result dropped: the worker serves  *)
(* the next call.                                                          *)
WorkerRecovers == worker.at = "reply" ~> worker.at # "reply"
=============================================================================
