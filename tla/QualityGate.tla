---------------------------- MODULE QualityGate ----------------------------
(* What stands between a muxed file and its publication: the checks of       *)
(* PipelineWorker._qc and _comparison (src/bdencode/worker.py).  The module  *)
(* Pipeline has the stages; here is the order inside the two of them: what a *)
(* check measures, what its checkpoint is keyed by, and whether its verdict  *)
(* is reached before or after the checkpoint is written.  A review may end   *)
(* in the same stage once more, a stop may come between any two steps, and   *)
(* the comparison has a budget of time.                                      *)
EXTENDS Integers, Sequences, FiniteSets

CONSTANTS
    Pairs,       \* pairs of frames that are compared
    Budget,      \* measurements that fit in the time of one comparison
    Flawed,      \* the checks the files may fail
    MaxReviews,  \* bound on the reviews
    MaxMishaps   \* bound on stops, revisions and damages

ASSUME GateAssumption ==
    /\ Pairs \in Nat \ {0} /\ Budget \in Nat \ {0}
    /\ {MaxReviews, MaxMishaps} \subseteq Nat

VARIABLES
    media,      \* version of a file; 0 is one that was changed behind the worker's back
    flaws,      \* the checks these files do not pass
    evidence,   \* what the last measurement of a check has written
    mark,       \* the checkpoint of a check: its inputs and the evidence
    gate,       \* stage, the check it is at, the step of the check, the time it used
    reviews, timeouts, cleanups, revisions, gateStops, damages

gateVars == <<media, flaws, evidence, mark, gate, reviews, timeouts, cleanups, revisions,
              gateStops, damages>>
gateBounds == <<revisions, gateStops, damages>>

-----------------------------------------------------------------------------
(* The checks.  "reads" are the files a check measures and "keys" those its  *)
(* checkpoint names; "from" are checks whose evidence it is made of; "way"   *)
(* says when it is judged: "first" is before its checkpoint, and never again *)
(* while that holds, "always" is each time, after the checkpoint, and "last" *)
(* is each time, before a checkpoint that is not there yet.  A check with    *)
(* the way "reading" has no checkpoint.                                      *)

Efficiency  == [reads |-> {"reference", "encoded", "output"},
                keys  |-> {"reference", "encoded", "output"}, from |-> {}, way |-> "first"]
VideoMux    == [reads |-> {"encoded", "output"}, keys |-> {"encoded", "output"},
                from  |-> {}, way |-> "first"]
Inspection  == [reads |-> {"output"}, keys |-> {"output"}, from |-> {}, way |-> "always"]

\* A copied track is compared with the reference, every other with its sidecar.
TrackMux    == [reads |-> {"reference", "sidecars", "output"},
                keys  |-> {"reference", "sidecars", "output"}, from |-> {}, way |-> "first"]

\* Topology, codecs, colour, HDR and start times against the reviewed plan.
Policy      == [reads |-> {}, keys |-> {}, from |-> {"inspection"}, way |-> "reading"]
Subtitles   == [reads |-> {"output"}, keys |-> {"output", "sidecars"}, from |-> {}, way |-> "last"]

\* Variant: the audio evidence is keyed by the sidecar it was muxed from.
AudioOfSidecar == [reads |-> {"reference", "sidecars", "output"},
                   keys  |-> {"reference", "sidecars"}, from |-> {}, way |-> "always"]
Audio == [reads |-> {"reference", "sidecars", "output"},
          keys  |-> {"reference", "sidecars", "output"}, from |-> {}, way |-> "always"]

\* Timing, continuity, PCM and signal against the policy of the track.
Sound       == [reads |-> {}, keys |-> {}, from |-> {"audio"}, way |-> "reading"]
Spectra     == [reads |-> {"reference", "output"}, keys |-> {"reference", "sidecars", "output"},
                from  |-> {}, way |-> "last"]

ReferenceInfo == [reads |-> {"reference"}, keys |-> {"reference"}, from |-> {}, way |-> "always"]
Completeness  == [reads |-> {}, keys |-> {"output"}, from |-> {"info", "efficiency", "videomux"},
                  way   |-> "first"]
Origins     == [reads |-> {"reference", "output"}, keys |-> {"reference", "output"}, from |-> {},
                way   |-> "always"]
Probes      == [reads |-> {"reference", "output"}, keys |-> {"reference", "output"},
                from  |-> {}, way |-> "always"]

\* Frames of the wanted types that both sides have.
FramePairs  == [reads |-> {}, keys |-> {}, from |-> {"probes"}, way |-> "reading"]

\* The reference is read through the script, which is what the keys name.
Images      == [reads |-> {"reference", "output"}, keys |-> {"output"}, from |-> {}, way |-> "always"]
SdrImages   == [reads |-> {"reference", "output"}, keys |-> {"output"}, from |-> {}, way |-> "always"]
Planes      == [reads |-> {"reference", "output"}, keys |-> {"output"}, from |-> {}, way |-> "always"]
Metrics     == [reads |-> {}, keys |-> {}, from |-> {"planes"}, way |-> "always"]
Thresholds  == [reads |-> {}, keys |-> {}, from |-> {"metrics"}, way |-> "reading"]

Kind == [efficiency |-> Efficiency, videomux |-> VideoMux, inspection |-> Inspection,
         trackmux |-> TrackMux, policy |-> Policy, subtitles |-> Subtitles, audio |-> Audio, sound |-> Sound,
         spectra |-> Spectra,
         info |-> ReferenceInfo, completeness |-> Completeness, origins |-> Origins,
         probes |-> Probes, pairs |-> FramePairs, images |-> Images, sdr |-> SdrImages,
         planes |-> Planes, metrics |-> Metrics, thresholds |-> Thresholds]

\* A check is a kind and the pair it is about, 0 for those about the whole file.
Of(kinds, pair) == [i \in 1..Len(kinds) |-> <<kinds[i], pair>>]

\* The pictures of an HDR title are mapped to SDR as well.
PerPair == <<"images", "sdr", "planes", "metrics">>

PairChecks == [i \in 1..(Len(PerPair) * Pairs) |->
                 <<PerPair[((i - 1) % Len(PerPair)) + 1], ((i - 1) \div Len(PerPair)) + 1>>]

Plan(stage) ==
    IF stage = "qc"
    THEN Of(<<"efficiency", "videomux", "inspection", "trackmux", "policy", "subtitles",
              "audio", "spectra", "sound">>, 0)
    ELSE Of(<<"info", "completeness", "origins", "probes", "pairs">>, 0) \o PairChecks
         \o Of(<<"thresholds">>, 0)

InPlan(stage) == {Plan(stage)[i] : i \in 1..Len(Plan(stage))}
Checks        == InPlan("qc") \cup InPlan("comparison")

MediaFiles      == {"reference", "encoded", "sidecars", "output"}
NoEvidence == [media |-> <<>>, flaws |-> {}, there |-> FALSE]
Unmarked   == [inputs |-> <<>>, evidence |-> NoEvidence]
Scratch    == {<<"origins", 0>>, <<"probes", 0>>}

\* The files a verdict is about.
About(k) == Kind[k].reads \cup (UNION {Kind[d].reads : d \in Kind[k].from})
              \cup (IF k = "thresholds" THEN Planes.reads ELSE {})

\* No files, or files with one flaw.
Flaws(kinds) == {{}} \cup {{k} : k \in kinds \cap Flawed}

\* The evidence a check is made of: that of its own pair, or of every pair.
From(c) == {d \in Checks : d[1] \in Kind[c[1]].from /\ (c[2] = 0 \/ d[2] \in {0, c[2]})}

GateInit ==
    /\ media = [f \in MediaFiles |-> 1]
    /\ flaws \in Flaws(DOMAIN Kind)
    /\ evidence = [c \in Checks |-> NoEvidence]
    /\ mark = [c \in Checks |-> Unmarked]
    /\ gate = [stage |-> "qc", at |-> 1, step |-> "stopped", clock |-> 0]
    /\ reviews = 0 /\ timeouts = 0 /\ cleanups = 0
    /\ revisions = 0 /\ gateStops = 0 /\ damages = 0

Mishaps == revisions + gateStops + damages

-----------------------------------------------------------------------------
(* Checkpoints                                                               *)

Checking == Plan(gate.stage)[gate.at]
Way      == Kind[Checking[1]].way
AtEnd    == gate.at > Len(Plan(gate.stage))

GateAt(step) == gate.stage # "accepted" /\ ~AtEnd /\ gate.step = step
GateTo(step) == gate' = [gate EXCEPT !.step = step]
NextCheck    == gate' = [gate EXCEPT !.at = @ + 1, !.step = "look"]

CheckInputs(c) == <<[f \in Kind[c[1]].keys |-> media[f]], [d \in From(c) |-> evidence[d]]>>

\* Evidence is what the files showed when they were read; evidence that is
\* made of other evidence shows what that does.
Measured(c) ==
    IF From(c) = {}
    THEN [media |-> [f \in Kind[c[1]].reads |-> media[f]],
          flaws |-> {k \in flaws : About(k) \subseteq Kind[c[1]].reads}, there |-> TRUE]
    ELSE [media |-> <<>>, flaws |-> UNION {evidence[d].flaws : d \in From(c)},
          there |-> \A d \in From(c) : evidence[d].there]

StageValid(c) == evidence[c].there /\ mark[c] = [inputs |-> CheckInputs(c), evidence |-> evidence[c]]

\* A tool that cannot read its file, or a report that does not parse, fails too.
Fits(k, e) == e.there /\ k \notin e.flaws /\ \A f \in DOMAIN e.media : e.media[f] # 0

Passes(c) ==
    IF Way = "reading" THEN \A d \in From(c) : Fits(c[1], evidence[d]) ELSE Fits(c[1], evidence[c])

-----------------------------------------------------------------------------
(* A check                                                                   *)

ToReview ==
    /\ gate' = [gate EXCEPT !.at = 1, !.step = "review", !.clock = 0]
    /\ reviews' = reviews + 1

\* The comparison reads the clock before each of its commands, before the
\* thresholds and before it ends.
OutOfTime == gate.stage = "comparison" /\ gate.clock >= Budget

ClockIsRead ==
    \/ GateAt("measure") /\ Way # "first"
    \/ GateAt("look") /\ Checking[1] = "thresholds"
    \/ AtEnd /\ gate.step = "clean"

Look ==
    /\ GateAt("look") /\ ~(ClockIsRead /\ OutOfTime)
    /\ CASE Way = "reading" -> GateTo("judge")
         [] Way # "reading" /\ ~StageValid(Checking) -> GateTo("measure")
         [] Way = "first" /\ StageValid(Checking) -> NextCheck
         [] OTHER -> GateTo("judge")
    /\ UNCHANGED <<media, flaws, evidence, mark, reviews, timeouts, cleanups, gateBounds>>

Measure ==
    /\ GateAt("measure") /\ ~(ClockIsRead /\ OutOfTime)
    /\ evidence' = [evidence EXCEPT ![Checking] = Measured(Checking)]
    /\ \E long \in {0, 1} :
         /\ long = 1 => gate.stage = "comparison" /\ Way # "first"
         /\ gate' = [gate EXCEPT !.step = IF Way = "always" THEN "mark" ELSE "judge",
                                 !.clock = @ + long]
    /\ UNCHANGED <<media, flaws, mark, reviews, timeouts, cleanups, gateBounds>>

RunsOut ==
    /\ ClockIsRead /\ OutOfTime
    /\ reviews < MaxReviews
    /\ timeouts' = timeouts + 1
    /\ ToReview
    /\ UNCHANGED <<media, flaws, evidence, mark, cleanups, gateBounds>>

\* A command gets the time that is left, and is killed when that has passed.
CutShort ==
    /\ GateAt("measure") /\ ClockIsRead
    /\ gate.stage = "comparison" /\ gate.clock = Budget - 1
    /\ reviews < MaxReviews
    /\ timeouts' = timeouts + 1
    /\ ToReview
    /\ UNCHANGED <<media, flaws, evidence, mark, cleanups, gateBounds>>

\* Variant: a pair is checkpointed when it is complete.
WriteMarkOfPair ==
    /\ GateAt("mark")
    /\ mark' = IF Checking[1] \in {"images", "sdr", "planes"} THEN mark
               ELSE [mark EXCEPT ![Checking] =
                        [inputs |-> CheckInputs(Checking), evidence |-> evidence[Checking]]]
    /\ IF Way = "always" THEN GateTo("judge") ELSE NextCheck
    /\ UNCHANGED <<media, flaws, evidence, reviews, timeouts, cleanups, gateBounds>>

WriteMark ==
    /\ GateAt("mark")
    /\ mark' = [mark EXCEPT ![Checking] =
                  [inputs |-> CheckInputs(Checking), evidence |-> evidence[Checking]]]
    /\ IF Way = "always" THEN GateTo("judge") ELSE NextCheck
    /\ UNCHANGED <<media, flaws, evidence, reviews, timeouts, cleanups, gateBounds>>

Judge ==
    /\ GateAt("judge")
    /\ IF Passes(Checking)
         THEN /\ IF Way = "first" \/ (Way = "last" /\ ~StageValid(Checking))
                   THEN GateTo("mark") ELSE NextCheck
              /\ UNCHANGED reviews
         ELSE reviews < MaxReviews /\ ToReview
    /\ UNCHANGED <<media, flaws, evidence, mark, timeouts, cleanups, gateBounds>>

-----------------------------------------------------------------------------
(* The stages                                                                *)

\* The comparison trusts the digests the earlier stages recorded, and wants
\* the mux evidence its checkpoint names.
EvidenceTrusted ==
    /\ media["reference"] # 0 /\ media["output"] # 0
    /\ mark[<<"videomux", 0>>].evidence = evidence[<<"videomux", 0>>]

StageBegins ==
    /\ gate.stage # "accepted" /\ gate.step = "stopped"
    /\ gate.stage = "comparison" => EvidenceTrusted
    /\ gate' = [gate EXCEPT !.at = 1, !.step = "look", !.clock = 0]
    /\ UNCHANGED <<media, flaws, evidence, mark, reviews, timeouts, cleanups, gateBounds>>

\* A review, or a failure after which the operator may do the same.
StageRefused ==
    /\ gate.stage = "comparison" /\ gate.step = "stopped" /\ ~EvidenceTrusted
    /\ reviews < MaxReviews /\ ToReview
    /\ UNCHANGED <<media, flaws, evidence, mark, timeouts, cleanups, gateBounds>>

QcPasses ==
    /\ gate.stage = "qc" /\ AtEnd
    /\ gate' = [stage |-> "comparison", at |-> 1, step |-> "stopped", clock |-> 0]
    /\ UNCHANGED <<media, flaws, evidence, mark, reviews, timeouts, cleanups, gateBounds>>

\* The manifest is written and the probes go, which takes its time, ...
CleansUp ==
    /\ gate.stage = "comparison" /\ AtEnd /\ gate.step = "look"
    /\ evidence' = [c \in Checks |-> IF c \in Scratch THEN NoEvidence ELSE evidence[c]]
    /\ cleanups' = cleanups + 1
    /\ \E long \in {0, 1} : gate' = [gate EXCEPT !.step = "clean", !.clock = @ + long]
    /\ UNCHANGED <<media, flaws, mark, reviews, timeouts, gateBounds>>

\* ... and the clock is read a last time.
ComparisonPasses ==
    /\ gate.stage = "comparison" /\ AtEnd /\ gate.step = "clean" /\ ~OutOfTime
    /\ gate' = [gate EXCEPT !.stage = "accepted", !.at = 1, !.step = "stopped", !.clock = 0]
    /\ UNCHANGED <<media, flaws, evidence, mark, reviews, timeouts, cleanups, gateBounds>>

\* The operator lets the stage run again, ...
Resumes ==
    /\ gate.step = "review"
    /\ GateTo("stopped")
    /\ UNCHANGED <<media, flaws, evidence, mark, reviews, timeouts, cleanups, gateBounds>>

\* ... or revises the selection: what is made from another file is made anew.
Remade(f) ==
    CASE f = "reference" -> MediaFiles
      [] f = "none" -> {}
      [] OTHER -> {f, "output"}

Revises ==
    /\ gate.step = "review" /\ Mishaps < MaxMishaps
    /\ revisions' = revisions + 1
    /\ \E f \in MediaFiles \cup {"none"} :
         /\ f = "none" => \A g \in MediaFiles : media[g] # 0
         /\ media' = [g \in MediaFiles |-> IF g \in Remade(f) THEN revisions + 2 ELSE media[g]]
         /\ LET new == {k \in DOMAIN Kind : About(k) \cap Remade(f) # {}}
            IN \E found \in Flaws(new) : flaws' = (flaws \ new) \cup found
    /\ \A g \in MediaFiles : media'[g] # 0
    /\ gate' = [stage |-> "qc", at |-> 1, step |-> "stopped", clock |-> 0]
    /\ UNCHANGED <<evidence, mark, reviews, timeouts, cleanups, gateStops, damages>>

\* The worker stops or dies, or a command fails.
GateStops ==
    /\ Mishaps < MaxMishaps /\ gate.step \notin {"stopped", "review"}
    /\ gateStops' = gateStops + 1
    /\ gate' = [gate EXCEPT !.at = 1, !.step = "stopped", !.clock = 0]
    /\ UNCHANGED <<media, flaws, evidence, mark, reviews, timeouts, cleanups, revisions, damages>>

\* A file or a report is changed while no stage runs.
Damage ==
    /\ Mishaps < MaxMishaps /\ gate.stage # "accepted" /\ gate.step \in {"stopped", "review"}
    /\ damages' = damages + 1
    /\ \/ \E f \in {"reference", "output"} : media' = [media EXCEPT ![f] = 0] /\ UNCHANGED evidence
       \/ \E c \in Checks : evidence' = [evidence EXCEPT ![c] = NoEvidence] /\ UNCHANGED media
    /\ UNCHANGED <<flaws, mark, gate, reviews, timeouts, cleanups, revisions, gateStops>>

GateNext ==
    \/ Look \/ Measure \/ CutShort \/ RunsOut \/ WriteMark \/ Judge
    \/ StageBegins \/ StageRefused \/ QcPasses \/ CleansUp \/ ComparisonPasses
    \/ Resumes \/ Revises \/ GateStops \/ Damage

GateSpec == GateInit /\ [][GateNext]_gateVars

-----------------------------------------------------------------------------
(* What is accepted passes every check as it is now: no review that was let  *)
(* run again, no checkpoint of other files and no stop between a verdict and *)
(* its checkpoint lets a file through that a check refuses.                  *)
AcceptedIsSound ==
    gate.stage = "accepted" => flaws = {} /\ \A f \in MediaFiles : media[f] # 0

(* A comparison that runs out of time has brought the release further, if a  *)
(* single command does not take the time of them all: as long as the files   *)
(* stay the same, a measurement is made once, the one that was cut short,    *)
(* the two that are thrown away at the end and those a stop interrupts       *)
(* excepted.                                                                 *)
TimeIsNotLost ==
    revisions = 0 /\ damages = 0 =>
        timeouts * (Budget - 1) <= 3 + Len(PerPair) * Pairs + (Cardinality(Scratch) + 1) * cleanups + gateStops
=============================================================================
