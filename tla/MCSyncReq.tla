----------------------------- MODULE MCSyncReq -----------------------------
(***************************************************************************)
(* Requests to the modem that wait for their answer, and what is sent by    *)
(* them one at a time: a behaviour is one of SyncReq, in which with two     *)
(* slots two callers never find them full and three may, or of              *)
(* XtraInjection, by which the MsgTask thread sends a file in parts,        *)
(* AidingDeletion or NiMessages.                                            *)
(***************************************************************************)
EXTENDS SyncReq

CONSTANTS t1, t2, t3, i1, i2, Lengths, PART_LEN, PartBits, LenBits, MaxFiles, MaxSends,
          SV_ID_RANGE, BDS_SV_ID_RANGE, Masks, MaxNi

VARIABLES
    subject,    \* "slots", "xtra", "deletion" or "ni", chosen at the start
    files, length, part, len_injected, sent, refused, requests,
    bits, delete_req,
    held, notifs, answered

xtraVars == <<files, length, part, len_injected, sent, refused, requests>>
deletionVars == <<bits, delete_req>>
niVars == <<held, notifs, answered>>

Xtra == INSTANCE XtraInjection WITH Answers <- {"accepted", "refused"}
Deletion == INSTANCE AidingDeletion WITH asked <- bits
Ni == INSTANCE NiMessages

(* The counters can count beyond a part: in the code 2^16 <= 1024 * 254.    *)
ASSUME XtraAssumption ==
    /\ Lengths \subseteq Nat /\ \E n \in Lengths : \A m \in Lengths : m <= n
    /\ PART_LEN \in Nat \ {0} /\ MaxFiles \in Nat /\ MaxSends \in Nat
    /\ 2^PartBits \in Nat \ {0, 1} /\ 2^LenBits \in Nat \ {0}
    /\ 2^LenBits <= PART_LEN * (2^PartBits - 2)

ASSUME DeletionAssumption ==
    /\ SV_ID_RANGE \in Nat /\ BDS_SV_ID_RANGE \in Nat
    /\ \A f \in Masks : f \subseteq Deletion!Bits

(* Every choice of the bits that are deleted satellite by satellite; of all *)
(* none, one, all but one and all.                                          *)
MCSvBits == {"EPHEMERIS", "ALMANAC", "GLO_EPHEMERIS", "GLO_ALMANAC", "BDS_EPHEMERIS",
             "BDS_ALMANAC"}
MCBits ==
    MCSvBits \cup
    {"POSITION", "TIME", "IONO", "UTC", "HEALTH", "SVDIR", "SVSTEER", "SADATA", "RTI",
     "CELLDB_INFO", "TIME_GPS", "ALMANAC_CORR", "FREQ_BIAS_EST", "GLO_SVDIR", "GLO_SVSTEER",
     "GLO_ALMANAC_CORR", "GLO_TIME", "BDS_SVDIR", "BDS_SVSTEER", "BDS_ALMANAC_CORR",
     "BDS_TIME"}
MCMasks ==
    SUBSET MCSvBits \cup {{b} : b \in MCBits} \cup {MCBits \ {b} : b \in MCBits} \cup {MCBits}

RequestsInit ==
    /\ Init /\ Xtra!Init /\ Deletion!Init /\ Ni!Init
    /\ subject \in {"slots", "xtra", "deletion", "ni"}
    /\ subject = "slots" \/ calm

RequestsNext ==
    /\ UNCHANGED subject
    /\ \/ subject = "slots" /\ Next /\ UNCHANGED <<xtraVars, deletionVars, niVars>>
       \/ subject = "xtra" /\ Xtra!Next /\ UNCHANGED <<vars, deletionVars, niVars>>
       \/ subject = "deletion" /\ Deletion!Next /\ UNCHANGED <<vars, xtraVars, niVars>>
       \/ subject = "ni" /\ Ni!Next /\ UNCHANGED <<vars, xtraVars, deletionVars>>

(* Fairness is that of the calls (see Spec): in the other parts there are   *)
(* none.                                                                    *)
RequestsSpec ==
    /\ RequestsInit
    /\ [][RequestsNext]_<<subject, vars, xtraVars, deletionVars, niVars>>
    /\ \A c \in Callers : WF_vars(Proceed(c)) /\ WF_vars(Expire(c))
    /\ WF_vars(ProcessInd)

(* What is sent means what was meant: see XtraInjection, AidingDeletion and *)
(* NiMessages.                                                              *)
SentAsMeant == CASE subject = "xtra" -> Xtra!FileArrives
                 [] subject = "deletion" -> Deletion!DeletesAsAsked
                 [] subject = "ni" -> Ni!AnswersTheRequest
                 [] OTHER -> TRUE
=============================================================================
