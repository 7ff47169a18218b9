---------------------------- MODULE CameraWrapper ----------------------------
(* The wrapper around the vendor's camera module: the camera service opens  *)
(* cameras, sets and gets their parameters, makes them do things and closes *)
(* them.  The wrapper changes parameters on their way.  What it gives to    *)
(* the vendor it keeps, a string for each camera, in one array for all,     *)
(* which every open allocates anew and every close frees the strings of.    *)
(* Opening and closing hold a lock; the service calls one device at a time. *)
EXTENDS Naturals

CONSTANTS Cameras, NULL

VARIABLES
    gVendorModule,      \* is it loaded
    fixed_set_params,   \* of each camera's string: "null", "live", "freed"
    open,               \* the cameras whose device the service has
    vendor,             \* of each camera, what its vendor's device is and does
    shown,              \* of each camera, the settings the service holds
    (* History. *)
    set,                \* of each camera, the settings the service asked for
    together,           \* one camera was to be opened while another was open
    twice, lost         \* a string was freed twice, one can be freed no more

vars == <<gVendorModule, fixed_set_params, open, vendor, shown, set, together, twice, lost>>
heap == <<fixed_set_params, twice, lost>>

Formats == {"nv12-venus", "yuv420sp"}
Setting == [video_stabilization : BOOLEAN, preview_format : Formats]

Closed == [open |-> FALSE, params |-> NULL, preview |-> FALSE, recording |-> FALSE]

TypeOK ==
    /\ gVendorModule \in BOOLEAN /\ open \subseteq Cameras
    /\ fixed_set_params \in [Cameras -> {"null", "live", "freed"}]
    /\ vendor \in [Cameras -> [open : BOOLEAN, params : Setting \cup {NULL},
                                preview : BOOLEAN, recording : BOOLEAN]]
    /\ shown \in [Cameras -> Formats \cup {NULL}]

Init ==
    /\ gVendorModule = FALSE
    /\ fixed_set_params = [c \in Cameras |-> "null"]
    /\ open = {} /\ vendor = [c \in Cameras |-> Closed]
    /\ shown = [c \in Cameras |-> NULL] /\ set = [c \in Cameras |-> NULL]
    /\ together = FALSE /\ twice = FALSE /\ lost = FALSE

(* check_vendor_module: it is loaded once, if it can be.  The service does  *)
(* the same by asking for the number or the kind of cameras.                *)
check_vendor_module == gVendorModule' \in {gVendorModule, TRUE}

camera_get_info ==
    /\ check_vendor_module
    /\ UNCHANGED <<heap, open, vendor, shown, set, together>>

(* camera_device_open: the array is allocated before the vendor is asked,   *)
(* and so is not what it was if the vendor refuses.  One camera is opened   *)
(* once at a time.                                                          *)
NewArray ==
    /\ fixed_set_params' = [c \in Cameras |-> "null"]
    /\ lost' = (lost \/ \E c \in Cameras : fixed_set_params[c] = "live")
    /\ UNCHANGED twice

camera_device_open(c) ==
    /\ c \notin open
    /\ check_vendor_module
    /\ IF ~gVendorModule'
       THEN UNCHANGED <<heap, open, vendor, together>>
       ELSE /\ NewArray
            /\ together' = (together \/ open # {})
            /\ \/ /\ open' = open \cup {c}
                  /\ vendor' = [vendor EXCEPT ![c] = [Closed EXCEPT !.open = TRUE]]
               \/ UNCHANGED <<open, vendor>>
    /\ set' = [set EXCEPT ![c] = NULL]
    /\ UNCHANGED shown

(* camera_device_close frees all strings, and leaves the pointers.          *)
camera_device_close(c) ==
    /\ c \in open
    /\ twice' = (twice \/ \E d \in Cameras : fixed_set_params[d] = "freed")
    /\ fixed_set_params' = [d \in Cameras |->
           IF fixed_set_params[d] = "null" THEN "null" ELSE "freed"]
    /\ open' = open \ {c}
    /\ vendor' = [vendor EXCEPT ![c] = Closed]
    /\ UNCHANGED <<gVendorModule, shown, set, together, lost>>

(* camera_fixup_setparams: no stabilisation of videos.                      *)
camera_fixup_setparams(settings) == [settings EXCEPT !.video_stabilization = FALSE]

(* A mutant: the last string is not freed.                                  *)
camera_set_parametersLeaks(c, settings) ==
    /\ c \in open
    /\ fixed_set_params' = [fixed_set_params EXCEPT ![c] = "live"]
    /\ lost' = (lost \/ fixed_set_params[c] = "live")
    /\ vendor' = [vendor EXCEPT ![c].params = camera_fixup_setparams(settings)]
    /\ set' = [set EXCEPT ![c] = settings]
    /\ UNCHANGED <<gVendorModule, open, shown, together, twice>>

(* camera_set_parameters: the camera's last string is freed for the next.   *)
camera_set_parameters(c, settings) ==
    /\ c \in open
    /\ twice' = (twice \/ fixed_set_params[c] = "freed")
    /\ fixed_set_params' = [fixed_set_params EXCEPT ![c] = "live"]
    /\ vendor' = [vendor EXCEPT ![c].params = camera_fixup_setparams(settings)]
    /\ set' = [set EXCEPT ![c] = settings]
    /\ UNCHANGED <<gVendorModule, open, shown, together, lost>>

(* camera_fixup_getparams: the service does not know the vendor's format.   *)
camera_fixup_getparams(format) == IF format = "nv12-venus" THEN "yuv420sp" ELSE format

(* camera_get_parameters, of what was set or of the vendor's own choice.    *)
camera_get_parameters(c) ==
    /\ c \in open /\ shown[c] = NULL
    /\ \E own \in Formats :
          shown' = [shown EXCEPT ![c] = camera_fixup_getparams(
                       IF vendor[c].params = NULL THEN own ELSE vendor[c].params.preview_format)]
    /\ UNCHANGED <<gVendorModule, heap, open, vendor, set, together>>

(* camera_put_parameters.                                                   *)
camera_put_parameters(c) ==
    /\ shown[c] # NULL
    /\ shown' = [shown EXCEPT ![c] = NULL]
    /\ UNCHANGED <<gVendorModule, heap, open, vendor, set, together>>

(* The other calls are the vendor's, of the same camera: those for previews, *)
(* those for videos, and those that leave neither different.                *)
VendorCall(c, new) ==
    /\ c \in open
    /\ vendor' = [vendor EXCEPT ![c] = new]
    /\ UNCHANGED <<gVendorModule, heap, open, shown, set, together>>

PreviewCall(c) == \E on \in BOOLEAN : VendorCall(c, [vendor[c] EXCEPT !.preview = on])
RecordingCall(c) == \E on \in BOOLEAN : VendorCall(c, [vendor[c] EXCEPT !.recording = on])
PictureCall(c) == VendorCall(c, vendor[c])
CommandCall(c) ==                   \* send_command, dump, and release, which ends both
    \/ VendorCall(c, vendor[c])
    \/ VendorCall(c, [vendor[c] EXCEPT !.preview = FALSE, !.recording = FALSE])

Next ==
    \/ camera_get_info
    \/ \E c \in Cameras :
          \/ camera_device_open(c) \/ camera_device_close(c)
          \/ \E s \in Setting : camera_set_parameters(c, s)
          \/ camera_get_parameters(c) \/ camera_put_parameters(c)
          \/ PreviewCall(c) \/ RecordingCall(c) \/ PictureCall(c) \/ CommandCall(c)

Spec == Init /\ [][Next]_vars

-----------------------------------------------------------------------------
(* Properties.                                                              *)

(* Whatever is opened, refused, set, read and closed in whatever order, the *)
(* vendor has the settings that were asked for last, without stabilisation, *)
(* the service sees no format it does not know, and the vendor's devices    *)
(* are those of the service.  And as long as no camera is to be opened      *)
(* while another is open, every string is freed, and freed once.            *)
CameraInv ==
    /\ TypeOK
    /\ \A c \in open : vendor[c].params =
          IF set[c] = NULL THEN NULL ELSE [set[c] EXCEPT !.video_stabilization = FALSE]
    /\ \A c \in Cameras : shown[c] # "nv12-venus" /\ (c \in open <=> vendor[c].open)
    /\ ~together => /\ ~twice /\ ~lost
                    /\ open = {} => \A c \in Cameras : fixed_set_params[c] # "live"
=============================================================================
