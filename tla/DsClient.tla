------------------------------ MODULE DsClient ------------------------------
(***************************************************************************)
(* ds_client: the data call of an emergency SUPL session, as LocApiV02     *)
(* opens, starts, stops and closes it on the MsgTask thread.  Opening      *)
(* finds the WDS service of the modem, asks it for the profile that is     *)
(* meant for emergency calls, and takes a handle of DSI.                   *)
(*                                                                         *)
(* DSStateMachine takes what openAndStartDataCall returns for one of four  *)
(* outcomes; here they come about.                                         *)
(***************************************************************************)
EXTENDS Naturals, Sequences

CONSTANTS
    ProfileLists,   \* lists of profiles the modem may have
    MaxWaits,       \* DS_CLIENT_SERVICE_TIMEOUT_TOTAL / DS_CLIENT_SERVICE_TIMEOUT
    MaxOpens        \* bound: calls opened

(* Settings of a profile: is it said to be for emergency calls, and its     *)
(* type of address.  An answer of WDS may leave out either.                 *)
Settings == [emergency : {"absent", "no", "yes"},
             pdp : {"absent", "ipv4", "ipv6", "ipv4v6", "other"}]

Cleared == [emergency |-> "absent", pdp |-> "absent"]

VARIABLES
    calm,       \* chosen at the start: WDS comes within the time limit and
                \* refuses nothing
    pc,         \* where openAndStartDataCall is
    list,       \* the profile list
    i,          \* the profile asked about
    settings,   \* the one response structure for all of them
    waits,      \* time-outs of the wait for WDS
    notifier,   \* the notifier of this call is not released
    wds,        \* nor is its WDS client
    left,       \* how many of both were left behind
    found,      \* the emergency profile, 0 if there is none
    pdp_type,
    refused,    \* the WDS client could not be released
    handle,     \* dsClientHandle: null, or a session with or without
                \* a DSI handle
    before,     \* history: the handle when the call was opened
    outcome,    \* of the last openAndStartDataCall
    dsi,        \* DSI handles held
    opens

look == <<list, i, settings, found, pdp_type>>
wdsVars == <<waits, notifier, wds, left, refused>>
call == <<handle, before, outcome, dsi, opens>>
vars == <<calm, pc, look, wdsVars, call>>

TypeOK ==
    /\ calm \in BOOLEAN
    /\ pc \in {"idle", "service", "wait", "init", "list", "settings", "release", "dsi", "start"}
    /\ list \in ProfileLists
    /\ i \in Nat /\ settings \in Settings
    /\ waits \in 0..MaxWaits
    /\ notifier \in BOOLEAN /\ wds \in BOOLEAN /\ refused \in BOOLEAN
    /\ left \in [notifiers : 0..MaxOpens, clients : 0..MaxOpens]
    /\ found \in 0..Len(list)
    /\ pdp_type \in {"unset", "v4", "v6", "v4v6"}
    /\ handle \in {"null", "hollow", "live"} /\ before \in {"null", "hollow", "live"}
    /\ outcome \in {"none", "SUCCESS", "BUSY", "NO_PROFILE", "START_FAILED"}
    /\ dsi \in Nat /\ opens \in 0..MaxOpens

Init ==
    /\ calm \in BOOLEAN
    /\ pc = "idle"
    /\ list \in ProfileLists
    /\ i = 1 /\ settings = Cleared
    /\ waits = 0 /\ notifier = FALSE /\ wds = FALSE /\ refused = FALSE
    /\ left = [notifiers |-> 0, clients |-> 0]
    /\ found = 0 /\ pdp_type = "unset"
    /\ handle = "null" /\ before = "null" /\ outcome = "none"
    /\ dsi = 0 /\ opens = 0

-----------------------------------------------------------------------------
(* LocApiV02::openAndStartDataCall, ds_client_open_call.                    *)

Open ==
    /\ pc = "idle" /\ opens < MaxOpens
    /\ pc' = "service"
    /\ opens' = opens + 1
    /\ list' \in ProfileLists
    /\ i' = 1 /\ settings' = Cleared /\ found' = 0 /\ pdp_type' = "unset"
    /\ waits' = 0 /\ refused' = FALSE
    /\ before' = handle /\ outcome' = "none"
    /\ UNCHANGED <<calm, notifier, wds, left, handle, dsi>>

(* What is not released by then stays behind. *)
Return(what) ==
    /\ pc' = "idle"
    /\ outcome' = what
    /\ left' = [notifiers |-> left.notifiers + (IF notifier THEN 1 ELSE 0),
                clients |-> left.clients + (IF wds THEN 1 ELSE 0)]
    /\ notifier' = FALSE /\ wds' = FALSE

GiveUp ==
    /\ ~calm
    /\ Return("NO_PROFILE")
    /\ UNCHANGED <<waits, refused>>

(* ds_client_qmi_ctrl_point_init: WDS is there, or a notifier will tell.    *)
FindService ==
    /\ pc = "service"
    /\ \/ pc' = "init" /\ UNCHANGED <<wdsVars, outcome>>
       \/ pc' = "wait" /\ notifier' = TRUE
            /\ UNCHANGED <<waits, wds, left, refused, outcome>>
       \/ GiveUp
    /\ UNCHANGED <<calm, look, handle, before, dsi, opens>>

(* WDS comes, or four seconds pass, or a signal comes and WDS does not.     *)
WaitForService ==
    /\ pc = "wait"
    /\ \/ pc' = "init" /\ UNCHANGED <<wdsVars, outcome>>
       \/ /\ waits + 1 < MaxWaits
          /\ waits' = waits + 1
          /\ UNCHANGED <<pc, notifier, wds, left, refused, outcome>>
       \/ GiveUp
    /\ UNCHANGED <<calm, look, handle, before, dsi, opens>>

InitClientKeeps ==
    /\ pc = "init"
    /\ \/ pc' = "list" /\ wds' = TRUE
            /\ UNCHANGED <<waits, left, refused, outcome, notifier>>
       \/ GiveUp
    /\ UNCHANGED <<calm, look, handle, before, dsi, opens>>

(* qmi_client_init; only then is the notifier released.                     *)
InitClient ==
    /\ pc = "init"
    /\ \/ pc' = "list" /\ wds' = TRUE /\ notifier' = FALSE
            /\ UNCHANGED <<waits, left, refused, outcome>>
       \/ GiveUp
    /\ UNCHANGED <<calm, look, handle, before, dsi, opens>>

GetProfileList ==
    /\ pc = "list"
    /\ \/ pc' = "settings" /\ UNCHANGED <<wdsVars, outcome>>
       \/ GiveUp
    /\ UNCHANGED <<calm, look, handle, before, dsi, opens>>

(* An answer leaves in the structure what it does not mention.              *)
Answered(profile) ==
    [f \in DOMAIN profile |-> IF profile[f] = "absent" THEN settings[f] ELSE profile[f]]

PdpType(pdp) == CASE pdp = "ipv6" -> "v6" [] pdp = "ipv4v6" -> "v4v6" [] OTHER -> "v4"

GetSettingsUncleared ==
    /\ pc = "settings" /\ i <= Len(list)
    /\ LET answer == Answered(list[i])
       IN \/ /\ answer.emergency = "yes"
             /\ found' = i /\ pdp_type' = PdpType(answer.pdp)
             /\ pc' = "release"
             /\ settings' = answer /\ UNCHANGED i
          \/ /\ answer.emergency # "yes"
             /\ i' = i + 1 /\ settings' = answer
             /\ UNCHANGED <<pc, found, pdp_type>>
    /\ UNCHANGED <<calm, list, wdsVars, call>>

(* The loop over the profiles, which ends with the first for emergency      *)
(* calls and else clears the structure.                                     *)
GetSettings ==
    /\ pc = "settings" /\ i <= Len(list)
    /\ LET answer == Answered(list[i])
       IN \/ /\ answer.emergency = "yes"
             /\ found' = i /\ pdp_type' = PdpType(answer.pdp)
             /\ pc' = "release"
             /\ settings' = answer /\ UNCHANGED i
          \/ /\ answer.emergency # "yes"
             /\ i' = i + 1 /\ settings' = Cleared
             /\ UNCHANGED <<pc, found, pdp_type>>
    /\ UNCHANGED <<calm, list, wdsVars, call>>

SettingsRefused ==
    /\ pc = "settings" /\ i <= Len(list)
    /\ GiveUp
    /\ UNCHANGED <<calm, look, handle, before, dsi, opens>>

NoMoreProfiles ==
    /\ pc = "settings" /\ i > Len(list)
    /\ pc' = "release"
    /\ UNCHANGED <<calm, look, wdsVars, call>>

(* A client that cannot be released is an error, but no reason to stop.     *)
ReleaseClient ==
    /\ pc = "release"
    /\ \/ wds' = FALSE /\ UNCHANGED <<left, refused>>
       \/ /\ ~calm
          /\ wds' = FALSE /\ refused' = TRUE
          /\ left' = [left EXCEPT !.clients = @ + 1]
    /\ pc' = "dsi"
    /\ UNCHANGED <<calm, look, waits, notifier, call>>

(* A session is put over the handle, and dsi_get_data_srvc_hndl gives it a  *)
(* DSI handle, or none for now.                                             *)
GetHandle ==
    /\ pc = "dsi"
    /\ \/ /\ found = 0
          /\ Return("NO_PROFILE")
          /\ UNCHANGED <<handle, dsi>>
       \/ /\ found # 0
          /\ handle' = "hollow"
          /\ Return("BUSY")
          /\ UNCHANGED dsi
       \/ /\ found # 0
          /\ handle' = "live" /\ dsi' = dsi + 1
          /\ \/ refused /\ Return("START_FAILED")
             \/ /\ ~refused
                /\ pc' = "start"
                /\ UNCHANGED <<outcome, left, notifier, wds>>
    /\ UNCHANGED <<calm, look, waits, refused, before, opens>>

(* ds_client_start_call: the profile is set and the call started.           *)
StartCall ==
    /\ pc = "start"
    /\ pc' = "idle"
    /\ \/ outcome' = "SUCCESS"
       \/ outcome' = "START_FAILED"
    /\ UNCHANGED <<calm, look, wdsVars, handle, before, dsi, opens>>

CloseCallStays ==
    /\ pc = "idle" /\ handle # "null"
    /\ dsi' = IF handle = "live" THEN dsi - 1 ELSE dsi
    /\ outcome' = "none"
    /\ UNCHANGED <<calm, pc, look, wdsVars, handle, before, opens>>

(* ds_client_close_call: the DSI handle is released and the session freed.  *)
CloseCall ==
    /\ pc = "idle" /\ handle # "null"
    /\ dsi' = IF handle = "live" THEN dsi - 1 ELSE dsi
    /\ handle' = "null" /\ outcome' = "none"
    /\ UNCHANGED <<calm, pc, look, wdsVars, before, opens>>

Next ==
    \/ Open \/ FindService \/ WaitForService \/ InitClient
    \/ GetProfileList \/ GetSettings \/ SettingsRefused \/ NoMoreProfiles
    \/ ReleaseClient \/ GetHandle \/ StartCall \/ CloseCall

Spec == Init /\ [][Next]_vars

-----------------------------------------------------------------------------
(* Properties.                                                              *)

(* The call is started with the first profile that says of itself that it  *)
(* is for emergency calls, and with its own type of address, whatever the   *)
(* profiles before it said.                                                 *)
ProfileIsOwn ==
    pc = "start" \/ outcome = "SUCCESS" =>
        /\ found # 0 /\ list[found].emergency = "yes"
        /\ \A k \in 1..(found - 1) : list[k].emergency # "yes"
        /\ pdp_type = PdpType(list[found].pdp)

(* If WDS comes in time and refuses nothing, nothing is left behind, with   *)
(* or without a profile for emergency calls.                                *)
NothingLeft == calm => left = [notifiers |-> 0, clients |-> 0]

(* There is a DSI handle for each session that has one: they only add up    *)
(* if a call is opened before the last was closed.                          *)
HandlesHeld ==
    /\ handle = "live" => dsi > 0
    /\ dsi > (IF handle = "live" THEN 1 ELSE 0) => opens > 1

(* Each way to end leaves the handle as DSStateMachine's outcomes do.       *)
OutcomesAreFour ==
    pc = "idle" =>
        CASE outcome \in {"SUCCESS", "START_FAILED"} -> handle = "live"
          [] outcome = "BUSY"                        -> handle = "hollow"
          [] outcome = "NO_PROFILE"                  -> handle = before
          [] OTHER                                   -> TRUE

CallInv == TypeOK /\ ProfileIsOwn /\ NothingLeft /\ HandlesHeld /\ OutcomesAreFour
=============================================================================
