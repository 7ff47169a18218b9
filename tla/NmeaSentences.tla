--------------------------- MODULE NmeaSentences ---------------------------
(* What the applications read as NMEA (loc_eng_nmea.cpp), from the reports  *)
(* of the modem (LocApiV02::reportSv, reportPosition) as the MsgTask thread *)
(* handles them (LocEngReportSv::proc, LocEngReportPosition::proc): a       *)
(* report of the satellites in view is cut into pages, and what it says of  *)
(* the satellites in use is kept for the position report that follows.      *)
(* Sentences are kept for one step only; times, coordinates, DOP and        *)
(* signal strengths are left out.                                           *)
EXTENDS Integers, SequencesExt

CONSTANTS Lists,            \* what the modem reports of satellites: sequences
                            \* of [system, svid, valid, track]
          MAX_SVS,          \* GPS_MAX_SVS
          PAGE_SVS,         \* satellites in one GSV sentence
          GSA_SVS,          \* satellites in one GSA sentence
          IntermediateFix,  \* INTERMEDIATE_POS of gps.conf
          MaxReports        \* position and satellite reports, for TLC

ASSUME NmeaAssumption ==
    /\ {MAX_SVS, PAGE_SVS, GSA_SVS} \subseteq Nat \ {0}
    /\ IntermediateFix \in BOOLEAN /\ MaxReports \in Nat

VARIABLES
    sv_used_mask,     \* satellites a GSA sentence may still claim
    mode, recurrence, \* mFixCriteria of the adapter
    mNavigating,
    mute,             \* mute_session_state is IN_SESSION
    nmea,             \* the sentences of the last step
    seen,             \* history: the satellite report it handled
    asked,            \* history: the mode the framework asked for
    used,             \* history: satellites of the last report that used any
    reports, caches, claims  \* history: how many reports; masks kept; GSA
                             \* sentences that claimed a satellite

criteria == <<mode, recurrence, mNavigating, asked>>
vars == <<sv_used_mask, criteria, mute, nmea, seen, used, reports, caches, claims>>

Gps == 1..32
Glonass == 65..96

(* "continue" on a system it does not know; without a valid identity the    *)
(* satellite counts, as number 0.                                           *)
Identified(sv) == sv.valid /\ sv.svid # 0
Counted(sv) == Identified(sv) => sv.system # "other"
Prn(sv) == CASE ~Identified(sv)         -> 0
             [] sv.system = "gps"     -> sv.svid
             [] sv.system = "sbas"    -> sv.svid + 33 - 120
             [] sv.system = "glonass" -> sv.svid + 64
             [] sv.system = "bds"     -> sv.svid

CappedLate(list) == list

(* No more than GPS_MAX_SVS entries are looked at, the skipped ones among   *)
(* them.                                                                    *)
Capped(list) == SubSeq(list, 1, IF Len(list) < MAX_SVS THEN Len(list) ELSE MAX_SVS)

(* LocApiV02::reportSv: sv_list and used_in_fix_mask.                       *)
SvList(list) ==
    LET kept == SelectSeq(Capped(list), Counted)
    IN  [i \in DOMAIN kept |-> Prn(kept[i])]
UsedInFix(list) ==
    {sv.svid : sv \in {s \in Range(Capped(list)) :
                          Identified(s) /\ s.system = "gps" /\ s.track}}

(* loc_eng_nmea_generate_sv reads the list once more for each sentence, from *)
(* where the one before it stopped, until it has four of its constellation. *)
Page(prns, constellation, from) ==
    LET mine == {i \in from..Len(prns) : prns[i] \in constellation}
    IN  {i \in mine : Cardinality({j \in mine : j < i}) < PAGE_SVS}

Pages(prns, constellation) ==
    LET count == Cardinality({i \in DOMAIN prns : prns[i] \in constellation})
        sentenceCount == (count \div PAGE_SVS) + (IF count % PAGE_SVS # 0 THEN 1 ELSE 0)
        svNumber[n \in 1..sentenceCount] ==
            IF n = 1 THEN 1
            ELSE Max(Page(prns, constellation, svNumber[n - 1])) + 1
        sentence(n) ==
            [type |-> "GSV", of |-> constellation, total |-> sentenceCount,
             number |-> n, inView |-> count,
             svs |-> LET page == Page(prns, constellation, svNumber[n])
                     IN  [k \in 1..Cardinality(page) |->
                            prns[SetToSortSeq(page, <)[k]]]]
    IN  IF count = 0
        THEN <<[type |-> "GSV", of |-> constellation, total |-> 1, number |-> 1,
                inView |-> 0, svs |-> <<>>]>>
        ELSE [n \in 1..sentenceCount |-> sentence(n)]

Blank == <<[type |-> "GSA", fix |-> 1, svs |-> <<>>],
           [type |-> "VTG", label |-> "N"], [type |-> "RMC", label |-> "N"],
           [type |-> "GGA", label |-> "N", count |-> 0]>>

(* The sentences of a fix that was reported.                                *)
Positioned(mask, label) ==
    LET svUsedList == SetToSortSeq(mask, <)
        n == Len(svUsedList)
    IN  <<[type |-> "GSA", fix |-> IF n = 0 THEN 1 ELSE IF n <= 3 THEN 2 ELSE 3,
           svs |-> SubSeq(svUsedList, 1, IF n < GSA_SVS THEN n ELSE GSA_SVS)],
          [type |-> "VTG", label |-> label], [type |-> "RMC", label |-> label],
          [type |-> "GGA", label |-> label, count |-> n]>>

-----------------------------------------------------------------------------
Init ==
    /\ sv_used_mask = {} /\ used = {}
    /\ mode = "invalid" /\ recurrence = "periodic" /\ mNavigating = FALSE
    /\ asked = "invalid"
    /\ mute = FALSE
    /\ nmea = <<>> /\ seen = <<>>
    /\ reports = 0 /\ caches = 0 /\ claims = 0

NoReport ==
    /\ nmea' = <<>> /\ seen' = <<>>
    /\ UNCHANGED <<sv_used_mask, used, reports, caches, claims>>

(* LocEngPositionMode::proc; the framework sets the mode before it starts.  *)
SetPositionMode(m, r) ==
    /\ ~mNavigating
    /\ mode' = m /\ recurrence' = r /\ asked' = m
    /\ UNCHANGED <<mNavigating, mute>> /\ NoReport

Start ==
    /\ ~mNavigating /\ mode # "invalid"
    /\ mNavigating' = TRUE
    /\ UNCHANGED <<mode, recurrence, asked, mute>> /\ NoReport

(* setInSession(false) forgets the mode.                                    *)
Stop ==
    /\ mNavigating
    /\ mNavigating' = FALSE /\ mode' = "invalid"
    /\ UNCHANGED <<recurrence, asked, mute>> /\ NoReport

Mute ==
    /\ mute' = ~mute
    /\ UNCHANGED criteria /\ NoReport

SvUsedMask(list) == IF UsedInFix(list) = {} THEN sv_used_mask ELSE UsedInFix(list)

(* reportSv, LocEngReportSv::proc and loc_eng_nmea_generate_sv.             *)
ReportSv(list) ==
    /\ reports < MaxReports
    /\ reports' = reports + 1
    /\ seen' = <<list>>
    /\ IF mute
       THEN nmea' = <<>> /\ UNCHANGED <<sv_used_mask, used, caches>>
       ELSE /\ nmea' = Pages(SvList(list), Gps) \o Pages(SvList(list), Glonass)
                       \o (IF UsedInFix(list) = {} THEN Blank ELSE <<>>)
            /\ sv_used_mask' = SvUsedMask(list)
            /\ used' = IF UsedInFix(list) = {} THEN used ELSE UsedInFix(list)
            /\ caches' = IF UsedInFix(list) = {} THEN caches ELSE caches + 1
    /\ UNCHANGED <<criteria, mute, claims>>

(* Which reports LocEngReportPosition::proc gives to the framework: every   *)
(* failure, final fixes by satellite, sensor or hybrid, and, if the         *)
(* configuration asks for intermediate ones, every fix accurate enough.     *)
Reported(r) ==
    \/ r.status = "failure"
    \/ r.status = "success" /\ r.satellite
    \/ IntermediateFix /\ r.accurate

(* A fix that is passed on ends a single session.                           *)
Ends(r) == Reported(r) /\ recurrence = "single"

ClearedMaskNever(r) == sv_used_mask
ClearedMask(r) == IF Reported(r) THEN {} ELSE sv_used_mask

(* reportPosition, LocEngReportPosition::proc and loc_eng_nmea_generate_pos. *)
(* A failure has no source and makes no sentence.                           *)
ReportPosition(r) ==
    /\ reports < MaxReports
    /\ reports' = reports + 1
    /\ seen' = <<>>
    /\ IF mute
       THEN nmea' = <<>> /\ UNCHANGED <<sv_used_mask, mode, mNavigating, claims>>
       ELSE /\ mNavigating' = (mNavigating /\ ~Ends(r))
            /\ mode' = IF Ends(r) THEN "invalid" ELSE mode
            /\ IF r.status = "failure"
               THEN nmea' = <<>> /\ UNCHANGED <<sv_used_mask, claims>>
               ELSE /\ nmea' = IF Reported(r)
                               THEN Positioned(sv_used_mask,
                                        IF mode' = "standalone" THEN "A" ELSE "D")
                               ELSE Blank
                    /\ sv_used_mask' = ClearedMask(r)
                    /\ claims' = IF Reported(r) /\ sv_used_mask # {}
                                 THEN claims + 1 ELSE claims
    /\ UNCHANGED <<recurrence, asked, mute, used, caches>>

Positions == [status : {"success", "intermediate", "failure"},
              satellite : BOOLEAN, accurate : BOOLEAN]

Next ==
    \/ \E m \in {"standalone", "assisted"}, r \in {"single", "periodic"} :
            SetPositionMode(m, r)
    \/ Start \/ Stop \/ Mute
    \/ \E list \in Lists : ReportSv(list)
    \/ \E r \in Positions : ReportPosition(r)

Spec == Init /\ [][Next]_vars

-----------------------------------------------------------------------------
(* Properties.                                                              *)

Sentences(type) == {k \in DOMAIN nmea : nmea[k].type = type}

(* The satellites of one system in a report of the modem, by the numbers    *)
(* NMEA gives them.                                                         *)
InView(list, system, offset) ==
    LET mine(sv) == Identified(sv) /\ sv.system = system
        first == SelectSeq(SubSeq(list, 1, IF Len(list) < MAX_SVS THEN Len(list)
                                           ELSE MAX_SVS), mine)
    IN  [k \in DOMAIN first |-> first[k].svid + offset]

(* The GSV sentences of one constellation are numbered pages of that list,  *)
(* each full but the last.                                                  *)
PagesOf(constellation, list) ==
    LET pages == SelectSeq(nmea, LAMBDA s : s.type = "GSV" /\ s.of = constellation)
    IN  /\ FlattenSeq([k \in DOMAIN pages |-> pages[k].svs]) = list
        /\ \A k \in DOMAIN pages :
              /\ pages[k].number = k /\ pages[k].total = Len(pages)
              /\ pages[k].inView = Len(list)
              /\ k < Len(pages) => Len(pages[k].svs) = PAGE_SVS
              /\ Len(pages[k].svs) <= PAGE_SVS
        /\ Len(pages) >= 1

(* The applications see each GPS and each GLONASS satellite of a report     *)
(* once, in the order of the report, whatever other satellites, unknown     *)
(* systems and entries without an identity stand between them               *)
(* (loc_eng_nmea_generate_sv).                                              *)
EachSatelliteListed ==
    seen # <<>> /\ nmea # <<>> =>
        /\ PagesOf(Gps, InView(seen[1], "gps", 0))
        /\ PagesOf(Glonass, InView(seen[1], "glonass", 64))

(* "clear the cache so they can't be used again": the satellites of one     *)
(* report are claimed by one GSA sentence at most, by all that fit, over    *)
(* muted reports, fixes that are not passed on and sessions that end; and a *)
(* fix of a periodic session under way has the label of the mode that       *)
(* session was asked for.                                                   *)
FixTold ==
    /\ sv_used_mask \in SUBSET Gps /\ mute \in BOOLEAN
    /\ claims <= caches
    /\ \A k \in Sentences("GSA") :
          \/ nmea[k].svs = <<>>
          \/ nmea[k].svs = SubSeq(SetToSortSeq(used, <), 1,
                                  IF Cardinality(used) < GSA_SVS
                                  THEN Cardinality(used) ELSE GSA_SVS)
    /\ mNavigating /\ recurrence = "periodic" =>
          \A k \in Sentences("RMC") :
             nmea[k].label = "N" \/ (nmea[k].label = "A" <=> asked = "standalone")
=============================================================================
