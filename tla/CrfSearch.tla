----------------------------- MODULE CrfSearch -----------------------------
(* The automatic choice of a CRF: the bracketing search of crf_search.py and *)
(* the loop of PipelineWorker._auto_crf around it, with its checkpoints.  A  *)
(* CRF is counted in quarter steps, a score in fortieths of a VMAF point     *)
(* above the target, so the limits of the slope are whole numbers.  The      *)
(* score of a probe may be anything: that it falls with the CRF is a hope of *)
(* the search, not a premise of this module.                                 *)
EXTENDS Integers, FiniteSets

CONSTANTS
    Nominals,       \* CRFs of the selection, from which a search starts
    Configs,        \* settings of the search: bounds and target
    Scores,         \* scores a probe may have
    MaxProbes,      \* auto_crf.max_iterations
    Tolerance,      \* auto_crf.tolerance
    MaxSearchStops, \* pauses, failures and crashes of a search
    MaxAsks         \* selections and references that follow one another

(* A configuration has its bounds in eighths, so they need not be multiples *)
(* of a quarter.                                                            *)
ASSUME CrfAssumption ==
    /\ Nominals \subseteq Int /\ Scores \subseteq Int
    /\ \A c \in Configs : c.min8 \in Int /\ c.max8 \in Int /\ c.max8 - c.min8 >= 4
    /\ MaxProbes \in Nat /\ Tolerance \in Nat
    /\ MaxSearchStops \in Nat /\ MaxAsks \in Nat

VARIABLES
    ask,        \* what the job wants: nominal CRF, configuration, reference
    probes,     \* the probes of this search: CRF -> score
    basis,      \* history: what each of these scores was measured on
    crf,        \* the CRF that is probed
    searchAt,   \* where the search stands
    scored,     \* files probe-*.vmaf.json: CRF -> score, and what it was measured on
    probeMarks, \* markers crf-probe-*.json: CRF -> inputs and file
    report,     \* analysis/crf-search.json
    reportMark, \* its marker
    searchStops, asks

crfVars == <<ask, probes, basis, crf, searchAt, scored, probeMarks, report, reportMark, searchStops, asks>>

Nothing == [is |-> "nothing"]

-----------------------------------------------------------------------------
(* Arithmetic                                                                *)

\* quantize_crf and round: half to even.
RoundedRatio(a, b) ==
    LET q == a \div b IN
    IF 2 * (a % b) < b THEN q
    ELSE IF 2 * (a % b) > b THEN q + 1
    ELSE IF q % 2 = 0 THEN q ELSE q + 1

Within(low, high, x) == IF x < low THEN low ELSE IF x > high THEN high ELSE x

LowBound  == RoundedRatio(ask.config.min8, 2)
HighBound == RoundedRatio(ask.config.max8, 2)

-----------------------------------------------------------------------------
(* CrfSearch                                                                 *)

Probed  == DOMAIN probes
Met(c)  == probes[c] >= 0
Failing == {c \in Probed : ~Met(c)}

\* Only what lies below every failure passes.
Passing == {c \in Probed : Met(c) /\ \A f \in Failing : c < f}

\* _bracket: sets of at most one probe.
Low  == {c \in Passing : \A d \in Passing : d <= c}
Above == {f \in Failing : \A l \in Low : f > l}
High == {f \in Above : \A g \in Above : f <= g}

\* _slope: the fall between two neighbours, the pair nearest to the target
\* and the lower of two, limited; a fall is a ratio.
Neighbours == {p \in Probed \X Probed : p[1] < p[2] /\ ~\E c \in Probed : p[1] < c /\ c < p[2]}
Distance(p) == LET s == probes[p[1]] + probes[p[2]] IN IF s < 0 THEN -s ELSE s
Nearest == {p \in Neighbours : \A q \in Neighbours :
                Distance(p) < Distance(q) \/ (Distance(p) = Distance(q) /\ p[1] <= q[1])}
Limited(n, d) == IF n < 3 * d THEN [n |-> 3, d |-> 1]
                 ELSE IF n > 40 * d THEN [n |-> 40, d |-> 1] ELSE [n |-> n, d |-> d]
Falls == IF Neighbours = {} THEN {[n |-> 15, d |-> 1]}
         ELSE {Limited(probes[p[1]] - probes[p[2]], p[2] - p[1]) : p \in Nearest}

Interpolated(l, h) ==
    LET span == probes[l] - probes[h] IN
    IF span > 0 THEN RoundedRatio(l * span + probes[l] * (h - l), span)
                ELSE RoundedRatio(l + h, 2)
Extrapolated(c, f) == RoundedRatio(c * f.n + probes[c] * f.d, f.n)

Close == \E l \in Low : probes[l] <= Tolerance

\* Variant: the candidate may be the failing end of the bracket.
BetweenInclusive(l, h) == Within(l + 1, h, Interpolated(l, h))

Between(l, h) == Within(l + 1, h - 1, Interpolated(l, h))

\* next_crf: a set of at most one CRF.
NextCrf ==
    IF Cardinality(Probed) >= MaxProbes THEN {}
    ELSE IF Probed = {} THEN {Within(LowBound, HighBound, ask.nominal)}
    ELSE IF Close THEN {}
    ELSE IF Passing # {} /\ Above # {}
         THEN {Between(l, h) : l \in Low, h \in {x \in High : \A l \in Low : x - l > 1}}
    ELSE IF Passing # {}
         THEN UNION {{Within(l + 1, HighBound, Extrapolated(l, f)) : f \in Falls} :
                        l \in {x \in Low : x < HighBound}}
    ELSE UNION {{Within(LowBound, h - 1, Extrapolated(h, f)) : f \in Falls} :
                   h \in {x \in High : x > LowBound}}

Status == IF Passing = {} THEN "unreachable"
          ELSE IF Close THEN "converged"
          ELSE IF \E l \in Low : l >= HighBound THEN "max crf" ELSE "best effort"

-----------------------------------------------------------------------------
(* PipelineWorker._auto_crf                                                  *)

Asks == [nominal : Nominals, config : Configs, reference : Int]

CrfInit ==
    /\ ask \in [nominal : Nominals, config : Configs, reference : {0}]
    /\ probes = <<>> /\ basis = <<>> /\ crf = 0 /\ searchAt = "idle"
    /\ scored = <<>> /\ probeMarks = <<>>
    /\ report = Nothing /\ reportMark = Nothing
    /\ searchStops = 0 /\ asks = 0

\* Variant: a probe does not depend on the reference.
ProbeInputsOfConfig == [config |-> ask.config, reference |-> 0]

\* What a probe depends on, and when its file need not be made again.
ProbeInputs == [config |-> ask.config, reference |-> ask.reference]

\* What the encoder and VMAF are given.
MeasuredOn == [config |-> ask.config, reference |-> ask.reference]

Marked(c)   == c \in DOMAIN probeMarks /\ c \in DOMAIN scored
               /\ probeMarks[c] = [inputs |-> ProbeInputs, file |-> scored[c]]
Put(f, c, v) == [x \in DOMAIN f \cup {c} |-> IF x = c THEN v ELSE f[x]]

\* A valid report ends the search before it begins.
SearchStarts ==
    /\ searchAt = "idle"
    /\ IF reportMark = [ask |-> ask, report |-> report]
         THEN searchAt' = "done" /\ UNCHANGED <<probes, basis>>
         ELSE searchAt' = "next" /\ probes' = <<>> /\ basis' = <<>>
    /\ UNCHANGED <<ask, crf, scored, probeMarks, report, reportMark, searchStops, asks>>

\* A probe with a valid checkpoint is not encoded again.
ProbeNext ==
    /\ searchAt = "next"
    /\ \E c \in NextCrf : crf' = c /\ searchAt' = IF Marked(c) THEN "score" ELSE "encode"
    /\ UNCHANGED <<ask, probes, basis, scored, probeMarks, report, reportMark, searchStops, asks>>

\* Sample encode and VMAF; the JSON is replaced atomically.
ProbeMeasured ==
    /\ searchAt = "encode"
    /\ \E s \in Scores : scored' = Put(scored, crf, [score |-> s, of |-> MeasuredOn])
    /\ searchAt' = "mark"
    /\ UNCHANGED <<ask, probes, basis, crf, probeMarks, report, reportMark, searchStops, asks>>

ProbeMarked ==
    /\ searchAt = "mark"
    /\ probeMarks' = Put(probeMarks, crf, [inputs |-> ProbeInputs, file |-> scored[crf]])
    /\ searchAt' = "score"
    /\ UNCHANGED <<ask, probes, basis, crf, scored, report, reportMark, searchStops, asks>>

\* record: a CRF that was probed before is an error.
ProbeRecorded ==
    /\ searchAt = "score"
    /\ IF crf \in Probed THEN searchAt' = "review" /\ UNCHANGED <<probes, basis>>
       ELSE /\ probes' = Put(probes, crf, scored[crf].score)
            /\ basis' = Put(basis, crf, scored[crf].of)
            /\ searchAt' = "next"
    /\ UNCHANGED <<ask, crf, scored, probeMarks, report, reportMark, searchStops, asks>>

\* outcome: the report is written whether or not it names a CRF.
ReportWritten ==
    /\ searchAt = "next" /\ NextCrf = {}
    /\ report' = [ask |-> ask, status |-> Status, chosen |-> Low, probes |-> probes,
                basis |-> basis]
    /\ searchAt' = IF Passing = {} THEN "review" ELSE "report"
    /\ UNCHANGED <<ask, probes, basis, crf, scored, probeMarks, reportMark, searchStops, asks>>

ReportMarked ==
    /\ searchAt = "report"
    /\ reportMark' = [ask |-> ask, report |-> report]
    /\ searchAt' = "done"
    /\ UNCHANGED <<ask, probes, basis, crf, scored, probeMarks, report, searchStops, asks>>

\* A pause, a failure or a crash: the job comes back to this stage.
SearchStops ==
    /\ searchAt # "idle" /\ searchStops < MaxSearchStops
    /\ searchStops' = searchStops + 1
    /\ searchAt' = "idle"
    /\ UNCHANGED <<ask, probes, basis, crf, scored, probeMarks, report, reportMark, asks>>

\* The operator revises the selection, or an earlier stage makes a new reference.
AskAgain ==
    /\ searchAt \in {"idle", "review", "done"} /\ asks < MaxAsks
    /\ asks' = asks + 1
    /\ \E n \in Nominals, c \in Configs, r \in {ask.reference, ask.reference + 1} :
           ask' = [nominal |-> n, config |-> c, reference |-> r]
    /\ searchAt' = "idle"
    /\ UNCHANGED <<probes, basis, crf, scored, probeMarks, report, reportMark, searchStops>>

SearchStep == SearchStarts \/ ProbeNext \/ ProbeMeasured \/ ProbeMarked \/ ProbeRecorded
              \/ ReportWritten \/ ReportMarked
CrfNext == SearchStep \/ SearchStops \/ AskAgain
CrfSpec == CrfInit /\ [][CrfNext]_crfVars

-----------------------------------------------------------------------------
(* Whatever the scores are, the search never asks for a CRF it has probed    *)
(* (record would raise), and it asks only between the probes that met the    *)
(* target and those that failed.  So the two never overlap.                  *)
Bracketed ==
    /\ \A c, d \in Probed : Met(c) /\ ~Met(d) => c < d
    /\ searchAt \in {"encode", "mark", "score"} =>
         \A c \in Probed : IF Met(c) THEN c < crf ELSE crf < c

(* The CRF the pipeline goes on with is the highest probed one that met the  *)
(* target of the present selection, and no probe below it failed.  Every     *)
(* score the choice rests on was measured with the present settings on the   *)
(* present reference, however many selections and references the files and   *)
(* markers have outlived.                                                    *)
ChosenMeetsTarget ==
    searchAt = "done" =>
        /\ report.ask.reference = ask.reference /\ report.ask.config = ask.config
        /\ \E c \in report.chosen :
             /\ report.probes[c] >= 0
             /\ \A d \in DOMAIN report.probes : report.probes[d] >= 0 <=> d <= c
        /\ \A d \in DOMAIN report.probes : report.basis[d] = MeasuredOn
=============================================================================
