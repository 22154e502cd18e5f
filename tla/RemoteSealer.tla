----------------------------- MODULE RemoteSealer -----------------------------
(***************************************************************************)
(* btpash's remote-sealer RPC (API in package btpash): GetWork, SubmitWork *)
(* and SubmitHashRate, each called by an external miner in an RPC          *)
(* goroutine of its own. Outside the remote modes (ModeNormal, ModeTest) a *)
(* call returns at once. Otherwise it hands its request to the sealer's    *)
(* loop over an unbuffered channel, or gives up when exitCh is closed,     *)
(* and then waits for the answer on a channel it made: workCh or errc for  *)
(* GetWork, errc for SubmitWork, done for SubmitHashRate; this second wait *)
(* has no exitCh case.                                                     *)
(*                                                                         *)
(* The loop (the remote sealer of btpash, outside this repository) serves  *)
(* one request at a time and answers it in the same select case: the      *)
(* current work or errNoMiningWork, nil or an error for a solution, and    *)
(* close(done) for a hash rate. Close closes exitCh and the loop returns.  *)
(* The miner hands the loop new work while it seals.                       *)
(***************************************************************************)
EXTENDS Naturals

CONSTANTS
    Clients,    \* concurrent RPC callers (external miners)
    PowModes    \* the PowMode values a configuration may carry

\* ModeNormal and ModeTest: the modes that run the remote sealer.
RemoteModes == {"normal", "test"}

Calls == {"GetWork", "SubmitWork", "SubmitHashRate"}

VARIABLES
    mode,       \* btpash.config.PowMode
    loop,       \* the sealer loop: "none" (no engine), "running", "exited"
    hasWork,    \* the loop holds a sealing task from the miner
    pc,         \* each caller: "idle", "send" (first select), "wait" (second)
    call,       \* the API method each caller is in
    reply       \* the answer waiting in the caller's channel, or "none"

rsVars == <<mode, loop, hasWork, pc, call, reply>>

TypeOK ==
    /\ mode \in PowModes
    /\ loop \in {"none", "running", "exited"}
    /\ hasWork \in BOOLEAN
    /\ pc \in [Clients -> {"idle", "send", "wait"}]
    /\ call \in [Clients -> Calls]
    /\ reply \in [Clients -> {"none", "workCh", "errc", "done"}]

\* No engine yet: the process has not created it, or has died.
Down ==
    /\ loop = "none"
    /\ hasWork = FALSE
    /\ pc = [c \in Clients |-> "idle"]
    /\ call = [c \in Clients |-> "GetWork"]
    /\ reply = [c \in Clients |-> "none"]

Init == mode \in PowModes /\ Down

\* CreateConsensusEngine: btpash.New starts the remote sealer's loop.
StartEngine ==
    /\ loop = "none"
    /\ mode' \in PowModes
    /\ loop' = "running"
    /\ UNCHANGED <<hasWork, pc, call, reply>>

\* The process ends: the engine, the loop and every RPC goroutine are gone.
Kill ==
    /\ UNCHANGED mode
    /\ loop' = "none"
    /\ hasWork' = FALSE
    /\ pc' = [c \in Clients |-> "idle"]
    /\ reply' = [c \in Clients |-> "none"]
    /\ UNCHANGED call

\* The PowMode check each method begins with: outside the remote modes
\* GetWork returns "not supported" and the others false.
Begin(c, k) ==
    /\ pc[c] = "idle"
    /\ call' = [call EXCEPT ![c] = k]
    /\ pc' = IF mode \in RemoteModes THEN [pc EXCEPT ![c] = "send"] ELSE pc
    /\ UNCHANGED <<mode, loop, hasWork, reply>>

\* The loop's fetchWork, submitWork and submitRate cases: the request is
\* received and answered at once into the caller's buffered channel. A
\* solution's verdict, nil or an error, both arrive on errc.
Serve(c) ==
    /\ loop = "running"
    /\ pc[c] = "send"
    /\ pc' = [pc EXCEPT ![c] = "wait"]
    /\ reply' = [reply EXCEPT ![c] =
                  CASE call[c] = "GetWork" -> IF hasWork THEN "workCh" ELSE "errc"
                    [] call[c] = "SubmitWork" -> "errc"
                    [] OTHER -> "done"]
    /\ UNCHANGED <<mode, loop, hasWork, call>>

StoppedNoGetWorkCase(c) ==
    /\ pc[c] = "send"
    /\ loop = "exited"
    /\ call[c] # "GetWork"
    /\ pc' = [pc EXCEPT ![c] = "idle"]
    /\ UNCHANGED <<mode, loop, hasWork, call, reply>>

\* case <-exitCh: the engine is closed; errbtpashStopped, or false.
Stopped(c) ==
    /\ pc[c] = "send"
    /\ loop = "exited"
    /\ pc' = [pc EXCEPT ![c] = "idle"]
    /\ UNCHANGED <<mode, loop, hasWork, call, reply>>

\* The second select (GetWork), `err := <-errc` (SubmitWork) and `<-done`
\* (SubmitHashRate): the call returns with the loop's answer.
Recv(c) ==
    /\ pc[c] = "wait"
    /\ reply[c] # "none"
    /\ pc' = [pc EXCEPT ![c] = "idle"]
    /\ reply' = [reply EXCEPT ![c] = "none"]
    /\ UNCHANGED <<mode, loop, hasWork, call>>

\* The miner hands the loop a new sealing task (Seal, workCh).
Seal ==
    /\ loop = "running"
    /\ ~hasWork
    /\ hasWork' = TRUE
    /\ UNCHANGED <<mode, loop, pc, call, reply>>

\* btpash.Close: exitCh is closed and the loop returns.
Close ==
    /\ loop = "running"
    /\ loop' = "exited"
    /\ UNCHANGED <<mode, hasWork, pc, call, reply>>

-----------------------------------------------------------------------------
(* Properties *)

\* Every remote-sealer call returns: a request the loop took is answered
\* before the loop can exit, and one it did not take is released by the
\* closed exitCh, whatever the order of Close and the calls.
CallsReturn == \A c \in Clients : pc[c] # "idle" ~> pc[c] = "idle"
==============================================================================
