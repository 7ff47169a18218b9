---------------------------- MODULE NiMessages ----------------------------
(* A network-initiated request as LocApiV02 passes it on: told to the       *)
(* framework in one form (reportNiRequest), kept, and given back to the     *)
(* modem with the answer (informNiResponse).  Between the two lies          *)
(* NiSession, which here answers the requests in order.  Texts, addresses   *)
(* and encodings are left out.                                              *)
EXTENDS Naturals, Sequences

CONSTANT MaxNi  \* requests under way, for TLC

VARIABLES
    held,       \* NI requests told to the framework: [parts, type]
    notifs,     \* the same, as the framework knows them
    answered    \* the response of the last step, with what it answers

vars == <<held, notifs, answered>>

(* Network-initiated requests come with payloads of these kinds.            *)
Parts == {"Vx", "UmtsCp", "Supl", "VxServiceInteraction", "SuplVer2Ext",
          "EmergencyNotification"}
Known(parts) == parts \cap {"Vx", "UmtsCp", "Supl"} # {}

NiType(parts) ==
    CASE "Vx" \in parts -> "VOICE"
      [] "Vx" \notin parts /\ "UmtsCp" \in parts -> "UMTS_CTRL_PLANE"
      [] parts \cap {"Vx", "UmtsCp"} = {} ->
            IF "EmergencyNotification" \in parts THEN "EMERGENCY_SUPL" ELSE "UMTS_SUPL"

NotificationTypes == {"none", "notify", "allow", "deny", "override"}

(* convertNiNotifyVerifyType.                                               *)
NotifyFlags(type) ==
    CASE type = "none"              -> {}
      [] type = "notify"            -> {"NOTIFY"}
      [] type \in {"allow", "deny"} -> {"NOTIFY", "VERIFY"}
      [] type = "override"          -> {"PRIVACY_OVERRIDE"}
DefaultResponse(type) ==
    CASE type = "allow" -> "ACCEPT" [] type = "deny" -> "DENY" [] OTHER -> "NORESP"

Notification(ni) ==
    [niType |-> NiType(ni.parts), flags |-> NotifyFlags(ni.type),
     default |-> DefaultResponse(ni.type)]

CopiedFirst(parts) == parts \ (IF "Supl" \in parts THEN {"UmtsCp", "Vx"} ELSE {})

(* "should this be an else if?": every payload is copied on its own.        *)
Copied(parts) == parts

UserResponse(ni, response) ==
    [userResp |-> response, type |-> ni.type, parts |-> Copied(ni.parts)]

-----------------------------------------------------------------------------
Init == held = <<>> /\ notifs = <<>> /\ answered = <<>>

(* What is neither Vx, UMTS nor SUPL is dropped, as is a request that       *)
(* cannot be copied.                                                        *)
ReportNiRequest(ni) ==
    /\ Len(held) < MaxNi
    /\ \/ /\ Known(ni.parts)
          /\ held' = Append(held, ni)
          /\ notifs' = Append(notifs, Notification(ni))
       \/ UNCHANGED <<held, notifs>>
    /\ answered' = <<>>

(* Any other response is an invalid parameter, and the modem is not told.   *)
InformNiResponse(response) ==
    /\ held # <<>>
    /\ answered' = IF response \in {"ACCEPT", "DENY", "NORESP"}
                   THEN <<[ni |-> Head(held), notif |-> Head(notifs),
                           resp |-> UserResponse(Head(held), response)]>>
                   ELSE <<>>
    /\ held' = Tail(held) /\ notifs' = Tail(notifs)

Next ==
    \/ \E parts \in SUBSET Parts, type \in NotificationTypes :
            ReportNiRequest([parts |-> parts, type |-> type])
    \/ \E response \in {"ACCEPT", "DENY", "NORESP", "other"} : InformNiResponse(response)

Spec == Init /\ [][Next]_vars

-----------------------------------------------------------------------------
(* Properties.                                                              *)

(* The modem gets back, with the answer, every payload of the request and   *)
(* its notification type, whichever payload the framework was told of; and  *)
(* the user was asked to verify whenever the request has an answer by       *)
(* default.                                                                 *)
AnswersTheRequest ==
    \A k \in DOMAIN answered :
        LET a == answered[k]
        IN  /\ a.resp.parts = a.ni.parts /\ a.resp.type = a.ni.type
            /\ a.notif.default # "NORESP" <=> "VERIFY" \in a.notif.flags
            /\ a.notif.niType = "EMERGENCY_SUPL" => "EmergencyNotification" \in a.resp.parts
=============================================================================
