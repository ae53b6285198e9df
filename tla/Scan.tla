--------------------------------- MODULE Scan ---------------------------------
(***************************************************************************)
(* The sanitizer steps of a level: each scans what an earlier step has     *)
(* brought with a set of patterns and, where they match, asks an LLM.      *)
(***************************************************************************)
EXTENDS Integers, FiniteSets

CONSTANTS Scans,      \* for each sanitizer step: what it may have to scan
          Severity    \* the severity of each rule: "low", "med" or "high"

VARIABLES scan,       \* the arguments of each scan, its stage and the judge's answer
          stripped,   \* the fields that are redacted in the result of the step
          verdicts,   \* ctx.sanitizer_verdicts
          degraded    \* ctx.sanitizer_degraded

scanVars == <<scan, stripped, verdicts, degraded>>

\* A scan has a payload ([field -> the rules that match it]), whether its size
\* fits, the load-bearing fields and strict_mode.
ASSUME ScanParameters ==
    \A s \in DOMAIN Scans : \A c \in Scans[s] :
        /\ DOMAIN c = {"payload", "fits", "bearing", "strict", "stage", "judged"}
        /\ c.stage = "start" /\ c.judged = "none"

ScanInit ==
    /\ scan \in [DOMAIN Scans -> UNION {Scans[s] : s \in DOMAIN Scans}]
    /\ \A s \in DOMAIN Scans : scan[s] \in Scans[s]
    /\ stripped = [s \in DOMAIN Scans |-> {}]
    /\ verdicts = <<>> /\ degraded = FALSE

Paranoia == [clean |-> 0, suspicious |-> 1, injection |-> 2]
Paranoid(v, w) == IF Paranoia[w] > Paranoia[v] THEN w ELSE v

\* A rule that matches two fields is two hits.
Hits(payload, severities) ==
    {hit \in (DOMAIN payload) \X (DOMAIN Severity) :
        hit[2] \in payload[hit[1]] /\ Severity[hit[2]] \in severities}

aggregate(payload) ==
    LET med == Cardinality(Hits(payload, {"med"}))
    IN  IF Hits(payload, {"high"}) # {} \/ med >= 2 THEN "injection"
        ELSE IF med = 1 THEN "suspicious" ELSE "clean"

\* Mutant: where there is a judge, the judge decides.
JudgeDecides(payload, judged) ==
    IF judged = "unreachable" THEN aggregate(payload) ELSE judged

_combine_verdicts(payload, judged) ==
    IF judged = "unreachable" THEN aggregate(payload)
    ELSE Paranoid(aggregate(payload), judged)

_select_fields_to_strip(c, verdict) ==
    IF verdict = "clean" \/ (verdict = "suspicious" /\ ~c.strict) THEN {}
    ELSE {hit[1] : hit \in Hits(c.payload, {"med", "high"})}

ScanEnds(s, stage, judged) ==
    scan' = [scan EXCEPT ![s].stage = stage, ![s].judged = judged]

\* An error is the result of the step, and the plan keeps no verdict for it.
Errs(s, judged) == ScanEnds(s, "error", judged) /\ UNCHANGED <<stripped, verdicts, degraded>>

\* What is listed is taken out of the payload (apply_strips misses keys with a
\* dot in them, which no payload here has).
_build_payload(s, fields, verdict, judged) ==
    /\ ScanEnds(s, "scanned", judged)
    /\ stripped' = [stripped EXCEPT ![s] = fields]
    /\ verdicts' = [t \in DOMAIN verdicts \cup {s} |-> IF t = s THEN verdict ELSE verdicts[t]]
    /\ degraded' = (degraded \/ judged = "unreachable")

\* The limits, then the patterns; without a hit the judge is not asked.
_run_s1(s) ==
    LET c == scan[s]
        hit == Hits(c.payload, {"low", "med", "high"}) # {}
    IN  /\ c.stage = "start"
        /\ \/ ~c.fits /\ Errs(s, "none")
           \/ c.fits /\ ~hit /\ _build_payload(s, {}, "clean", "none")
           \/ /\ c.fits /\ hit /\ ScanEnds(s, "judge", "none")
              /\ UNCHANGED <<stripped, verdicts, degraded>>

\* The answer of the judge: a verdict (an answer that is no JSON or names no
\* verdict is "suspicious"), or none within the time.
_run_s2(s) ==
    \E judged \in DOMAIN Paranoia \cup {"unreachable"} :
        LET c == scan[s]
            verdict == _combine_verdicts(c.payload, judged)
            fields == _select_fields_to_strip(c, verdict)
        IN  /\ c.stage = "judge"
            /\ IF fields \cap c.bearing # {} THEN Errs(s, judged)
               ELSE _build_payload(s, fields, verdict, judged)

\* JSON that is no object, or a confidence that is no number: the step fails.
JudgeRaises(s) ==
    /\ scan[s].stage = "judge" /\ ScanEnds(s, "raised", "none")
    /\ UNCHANGED <<stripped, verdicts, degraded>>

ScanNext == \E s \in DOMAIN Scans : _run_s1(s) \/ _run_s2(s) \/ JudgeRaises(s)

ScanSpec == ScanInit /\ [][ScanNext]_scanVars

-----------------------------------------------------------------------------
(* Properties *)

\* The scan is conservative (filter_service.py:285-350): the verdict a plan
\* keeps for a step is as severe as the patterns alone would have it and as
\* the judge had it; a field with a grave match is passed on only where
\* nothing found it an injection, and a load-bearing field is passed on
\* unchanged or not at all. The plan knows of a scan that no judge has seen.
ScanIsConservative ==
    \A s \in DOMAIN Scans :
        LET c == scan[s]
            heard == {aggregate(c.payload)} \cup ({c.judged} \ {"none", "unreachable"})
            grave == {hit[1] : hit \in Hits(c.payload, {"med", "high"})}
        IN  /\ s \in DOMAIN verdicts <=> c.stage = "scanned"
            /\ s \in DOMAIN verdicts =>
                 /\ \A v \in heard : Paranoia[v] <= Paranoia[verdicts[s]]
                 /\ "injection" \in heard \/ (c.strict /\ "suspicious" \in heard)
                       => grave \subseteq stripped[s]
                 /\ stripped[s] \cap c.bearing = {}
                 /\ c.judged = "unreachable" => degraded
=============================================================================
