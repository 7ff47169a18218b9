---------------------------- MODULE XtraInjection ----------------------------
(***************************************************************************)
(* Injecting an XTRA file (predicted orbits): loc_eng_xtra_inject_data     *)
(* copies it into a message, and LocApiV02::setXtraData sends it to the    *)
(* modem in parts, one synchronous request each.                           *)
(*                                                                         *)
(* The file is its length; a part is where its bytes came from.  The       *)
(* counters of setXtraData have the widths of their types.                 *)
(***************************************************************************)
EXTENDS Naturals, Sequences

CONSTANTS
    Lengths,    \* lengths of files
    PART_LEN,   \* QMI_LOC_MAX_PREDICTED_ORBITS_PART_LEN_V02
    PartBits,   \* width of part, a uint8_t
    LenBits,    \* width of len_injected, a uint16_t
    Answers,    \* of the modem to a part: "accepted", "refused"
    MaxFiles,   \* bound: files
    MaxSends    \* bound: parts sent of one file

VARIABLES
    files,          \* files queued for the MsgTask thread, by length
    length,         \* of the file being injected, alone in a sequence
    part,
    len_injected,
    sent,           \* the parts of this file the modem got: partNum, the
                    \* place of the bytes in the file and their number
    refused,        \* history: the modem refused a part of this file
    requests        \* files so far

loop == <<length, part, len_injected, sent, refused>>
vars == <<files, loop, requests>>

Widest   == CHOOSE n \in Lengths : \A m \in Lengths : m <= n
MaxParts == 2^PartBits - 1

TypeOK ==
    /\ files \in Seq(Lengths)
    /\ length \in {<<>>} \cup {<<n>> : n \in Lengths}
    /\ part \in 0..MaxParts
    /\ len_injected \in 0..(2^LenBits - 1)
    /\ sent \in Seq([partNum : 0..MaxParts, from : 0..Widest, len : 0..PART_LEN])
    /\ refused \in BOOLEAN
    /\ requests \in 0..MaxFiles

Init ==
    /\ files = <<>>
    /\ length = <<>> /\ part = 1 /\ len_injected = 0
    /\ sent = <<>> /\ refused = FALSE
    /\ requests = 0

(* loc_eng_xtra_inject_data. *)
Inject(n) ==
    /\ requests < MaxFiles
    /\ requests' = requests + 1
    /\ files' = Append(files, n)
    /\ UNCHANGED loop

(* LocEngInjectXtraData::proc, setXtraData up to its loop. *)
Begin ==
    /\ length = <<>> /\ files # <<>>
    /\ length' = <<Head(files)>>
    /\ files' = Tail(files)
    /\ part' = 1 /\ len_injected' = 0
    /\ sent' = <<>> /\ refused' = FALSE
    /\ UNCHANGED requests

(* Division of integers truncates: an empty file has a part, too. *)
TotalParts(n) == IF n = 0 THEN 1 ELSE ((n - 1) \div PART_LEN) + 1

Least(m, n) == IF m < n THEN m ELSE n

(* What is left, or a full part; more than the file never is left.          *)
PartLen(n) == Least(n - len_injected, PART_LEN)

AdvanceOver(answer, n) == (len_injected + PartLen(n) + 1) % 2^LenBits

(* A part that is refused is not counted as injected, ... *)
Advance(answer, n) ==
    IF answer = "accepted"
    THEN (len_injected + PartLen(n)) % 2^LenBits ELSE len_injected

(* ... but the loop goes on to the next. *)
NextPart(answer) == (part + 1) % 2^PartBits

(* One pass of the loop. *)
SendPart(answer) ==
    /\ length # <<>>
    /\ part <= TotalParts(length[1])
    /\ Len(sent) < MaxSends
    /\ LET n == length[1]
       IN  /\ sent' = Append(sent, [partNum |-> part, from |-> len_injected,
                                    len |-> PartLen(n)])
           /\ len_injected' = Advance(answer, n)
    /\ part' = NextPart(answer)
    /\ refused' = (refused \/ answer = "refused")
    /\ UNCHANGED <<files, length, requests>>

Finish ==
    /\ length # <<>>
    /\ part > TotalParts(length[1])
    /\ length' = <<>>
    /\ UNCHANGED <<files, part, len_injected, sent, refused, requests>>

Next ==
    \/ \E n \in Lengths : Inject(n)
    \/ Begin \/ Finish
    \/ \E answer \in Answers : SendPart(answer)

Spec == Init /\ [][Next]_vars

-----------------------------------------------------------------------------
(* Properties.                                                              *)

(* The modem gets the file in order and in full: every part carries the     *)
(* bytes its number stands for, and a finished file has all its parts.      *)
InPlace ==
    /\ \A k \in DOMAIN sent : /\ sent[k].partNum = k
                              /\ sent[k].from = (k - 1) * PART_LEN
                              /\ sent[k].len <= PART_LEN

Complete ==
    length # <<>> /\ part > TotalParts(length[1]) =>
        LET k == Len(sent) IN sent[k].from + sent[k].len = length[1]

(* As long as no part is refused and len_injected can count the file; and    *)
(* the loop ends, refused parts or not, if part can count beyond its parts. *)
FileArrives ==
    /\ TypeOK
    /\ (~refused /\ length # <<>> /\ length[1] < 2^LenBits)
           => InPlace /\ Complete
    /\ (length # <<>> /\ TotalParts(length[1]) < MaxParts)
           => Len(sent) <= TotalParts(length[1])

(* "this module breaks down the XTRA file into chunks and injects them one  *)
(* at a time": whatever the modem answers, and however long the file.       *)
ChunksInPlace == length # <<>> => InPlace
=============================================================================
