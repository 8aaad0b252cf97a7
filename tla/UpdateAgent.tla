----------------------------- MODULE UpdateAgent ----------------------------
(***************************************************************************)
(* The device the SDK is built for: an application that keeps its firmware *)
(* up to date through one context, while the device is reset at any moment *)
(* and the callbacks and the transport fail in every way FirmupsSdk allows,*)
(* though not for ever.                                                    *)
(*                                                                         *)
(* The application is not part of the repository.  It is the shortest one  *)
(* that uses the functions for what they are made for:                     *)
(*                                                                         *)
(*   start -> check_in -> look -> open -> fetch -> close -> install        *)
(*                          |                                  |           *)
(*                          +--> current                       +--> start  *)
(***************************************************************************)
EXTENDS SdkProperties

CONSTANTS
  Updater,          \* the thread that updates
  Device_,          \* the context it uses
  DownloadBuffer,   \* the size of its download buffer
  Factory,          \* the firmware it is delivered with
  MaxMisfortunes    \* bound: failures that did not have to happen

Dev == DeviceId[Device_]

(* The firmwares it may come to run: the one it is delivered with and the  *)
(* one the server has for it.                                              *)
Firmwares == {Factory} \cup {Desired[d].val : d \in ServerDevices \cap {Dev}}

OwnCall(op, id, n) ==
  [op |-> op, ctx |-> Device_, ptr |-> TRUE, id |-> id, type |-> 0, size |-> n]

(* The calls it makes, in some phase and of some firmware.                 *)
AgentCalls ==
  {OwnCall(op, 0, 0) : op \in {"get_device_info", "get_chunk", "finish"}}
    \cup {OwnCall("set_device_info", f, 0) : f \in Firmwares}
    \cup {OwnCall("download_initialize", f, DownloadBuffer) : f \in Firmwares}

(* The types of the arguments of firmups_sdk_firmware_download_initialize. *)
uint16_t == 0 .. 65535

ASSUME AgentAssumption ==
  /\ Threads = {Updater}
  /\ Device_ \in Contexts
  /\ {DownloadBuffer, Factory, MaxMisfortunes} \subseteq Nat
  /\ Firmwares \cup {DownloadBuffer} \subseteq uint16_t
  /\ CallsOf = [t \in Threads |-> AgentCalls]

VARIABLES
  phase,         \* what the updater is about
  running,       \* the firmware the device runs
  wanted,        \* the firmware it downloads
  misfortunes    \* how much has gone wrong

agentVars == <<phase, running, wanted, misfortunes>>
allVars == <<vars, agentVars>>

AgentInit ==
  /\ Init
  /\ phase = "start"
  /\ running = Factory
  /\ wanted = Factory
  /\ misfortunes = 0

-----------------------------------------------------------------------------
(* Starting, and starting again.  A reset ends the call in progress; the   *)
(* memory of the context keeps what it held, locks and session included,   *)
(* and it is for firmups_sdk_initialize to make it usable again.  The      *)
(* server, the messages on their way and the flash are not touched.        *)

Start ==
  /\ phase = "start"
  /\ \E w \in WorkBuffers : SdkInitialize(Device_, w)
  /\ phase' = "check_in"
  /\ UNCHANGED <<running, wanted, misfortunes>>

Reset ==
  /\ ready' = [ready EXCEPT ![Device_] = FALSE]
  /\ static_ret' = "NONE"
  /\ pc' = [pc EXCEPT ![Updater] = "idle"]
  /\ call' = [call EXCEPT ![Updater] = NoCall]
  /\ ret' = [ret EXCEPT ![Updater] = "NONE"]
  /\ loc' = [loc EXCEPT ![Updater] = NoLoc]
  /\ out' = [out EXCEPT ![Updater] = NoOut]
  /\ window' = [window EXCEPT ![Updater] = {}]
  /\ got' = [got EXCEPT ![Updater] = Garbage]
  /\ phase' = "start"
  /\ UNCHANGED <<lock, dl, cry, mem, netVars, budget, flash, wanted>>

ResetStrikes ==
  /\ misfortunes < MaxMisfortunes
  /\ phase # "start"
  /\ Reset
  /\ misfortunes' = misfortunes + 1
  /\ UNCHANGED running

Install ==
  /\ phase = "install"
  /\ Reset
  /\ running' = wanted
  /\ UNCHANGED misfortunes

-----------------------------------------------------------------------------
(* The calls of the updater, one after the other, each until it succeeds.  *)
(* It tries while the context is free.                                     *)

CallOf ==
  CASE phase = "check_in" -> OwnCall("set_device_info", running, 0)
    [] phase = "look"     -> OwnCall("get_device_info", 0, 0)
    [] phase = "open"     -> OwnCall("download_initialize", wanted, DownloadBuffer)
    [] phase = "fetch"    -> OwnCall("get_chunk", 0, 0)
    [] OTHER              -> OwnCall("finish", 0, 0)

Call ==
  /\ phase \in {"check_in", "look", "open", "fetch", "close"}
  /\ CallLocks(Updater, CallOf)
  /\ UNCHANGED agentVars

Desires(o) == o.vals[2]

PhaseAfter(code, o) ==
  IF code # "NONE" THEN phase
  ELSE CASE phase = "check_in" -> "look"
         [] phase = "look"     -> IF Desires(o) = running THEN "current" ELSE "open"
         [] phase = "open"     -> "fetch"
         [] phase = "fetch"    -> IF o.complete THEN "close" ELSE "fetch"
         [] OTHER              -> "install"

TakeResult ==
  /\ Consume(Updater)
  /\ phase' = PhaseAfter(ret[Updater], out[Updater])
  /\ wanted' = IF phase = "look" /\ ret[Updater] = "NONE" THEN Desires(out[Updater]) ELSE wanted
  /\ UNCHANGED <<running, misfortunes>>

-----------------------------------------------------------------------------
(* The steps of a call.  One that goes worse than it had to is a           *)
(* misfortune; that no answer comes to a message the server could not open *)
(* is the consequence of one.                                              *)

At(l) == pc[Updater] = l

OwnReplies ==
  {r \in reps : r.tok = loc[Updater].tok
                 /\ MessageSize(r.msg.hdr, r.msg.body) <= ReplyRoom(Updater)}

AnswerLost == loc[Updater].tok \in served /\ OwnReplies = {}

Unlucky ==
  \/ At("header") /\ pc'[Updater] = "send"
  \/ At("seal") /\ mem'[Device_][InnerBuffer(Updater)].key = ZeroKey
  \/ At("wait") /\ ~AnswerLost /\ got'[Updater] \notin {r.msg : r \in OwnReplies}
  \/ At("wait") /\ AnswerLost /\ got'[Updater] # got[Updater]
  \/ At("open") /\ ret'[Updater] = MinusOne
                /\ mem[Device_][OuterBuffer(Updater)].key = DeviceId[Device_]

Work ==
  /\ Step(Updater)
  /\ ~At("returned")
  /\ misfortunes' = misfortunes + (IF Unlucky THEN 1 ELSE 0)
  /\ misfortunes' <= MaxMisfortunes
  /\ UNCHANGED <<phase, running, wanted>>

Server == ServeNew /\ UNCHANGED agentVars

(* What the thread that updates does next, whichever it is.                *)
UpdaterStep == Start \/ Install \/ Call \/ TakeResult \/ Work

AgentNext == UpdaterStep \/ ResetStrikes \/ Server

AgentSpec == AgentInit /\ [][AgentNext]_allVars

(* The updater does not stop half way and the server reads its messages.   *)
(* The number of misfortunes is bounded, so that of the outcomes of a step *)
(* only the good one is left in the end; nothing else is assumed of them.  *)
AgentFairness == WF_allVars(UpdaterStep) /\ WF_allVars(Server)

FairAgentSpec == AgentSpec /\ AgentFairness

-----------------------------------------------------------------------------
(* firmups_sdk_firmware_download_*: the device never runs a firmware whose *)
(* image it did not receive whole, however often the download was cut off, *)
(* started over, or answered late.                                         *)
InstalledWhole ==
  running \in DOMAIN Images =>
    flash[Device_] = BytesOf(Bytes(running, 0, Images[running]))

(* The functions of the SDK are enough for an application to get from any  *)
(* state to the firmware the server wants, and to have it on record there. *)
UpdateHappens == <>(running = Desired[Dev].val /\ srv[Dev].firmware = Desired[Dev])
=============================================================================
