----------------------------- MODULE Languages -----------------------------
(* The languages of the tracks: what the disc declares, what is heard in the *)
(* reference and what the operator says (LanguageResolver, AudioLanguage-    *)
(* Runtime, PipelineWorker._resolve_selected_languages).  A code is valid or *)
(* None, a confidence is in hundredths.  A new version of the scan or of the *)
(* speech model would make every cached result stale; neither changes here.  *)
EXTENDS Naturals, FiniteSets

CONSTANTS
    Streams,          \* what a disc may hold: track -> kind and declarations
    Choices,          \* what the operator may select: track -> None, a code or "omit"
    Detections,       \* what the speech model may say of a sample: code and confidence
    SampleCount,      \* samples of a track
    MaxRevisions, MaxReferences, MaxLanguageStops

None == "none"
ASSUME LanguagesAssumption ==
    /\ SampleCount \in Nat \ {0}
    /\ \A d \in Detections : d.confidence \in 0..100
    /\ MaxRevisions \in Nat /\ MaxReferences \in Nat /\ MaxLanguageStops \in Nat

VARIABLES
    streams,    \* the tracks of the title, in their order
    wanted,     \* the selection
    title,      \* version of the reference
    wavs, tags, \* track -> sample -> the reference it was cut from; its marker
    heard,      \* track -> the result of the speech model
    pass,       \* the pass over the tracks: at, the track, the sample, the verdicts
    told,       \* analysis/language-inference.json
    languageStops, reselections

languageVars == <<streams, wanted, title, wavs, tags, heard, pass, told, languageStops, reselections>>

Broken   == 0  \* no sample, or one that was cut short
Tracks   == DOMAIN streams
Samples  == 1..SampleCount
NoTag    == [source |-> 0, file |-> Broken]
Unheard  == [source |-> 0, samples |-> <<>>, code |-> None, confidence |-> 0]
Untold   == [wanted |-> <<>>, status |-> None, resolved |-> <<>>]
Waiting(at) == [at |-> at, track |-> 0, sample |-> 0, todo |-> {}, resolved |-> <<>>, open |-> {}]

-----------------------------------------------------------------------------
(* Decisions                                                                 *)

\* language_consensus: enough usable samples, two thirds of them agree, and
\* these are confident on average.  A tie is never accepted.
Consensus(said) ==
    LET usable    == {i \in Samples : said[i].code # None /\ said[i].confidence > 0}
        Says(c)   == {i \in usable : said[i].code = c}
        weight[S \in SUBSET usable] ==
            IF S = {} THEN 0
            ELSE LET i == CHOOSE j \in S : TRUE IN said[i].confidence + weight[S \ {i}]
        heaviest  == {c \in {said[i].code : i \in usable} :
                        \A i \in usable : weight[Says(said[i].code)] <= weight[Says(c)]}
        agreed    == {c \in heaviest : /\ 3 * Cardinality(Says(c)) >= 2 * Cardinality(usable)
                                       /\ weight[Says(c)] >= 75 * Cardinality(Says(c))}
    IN  IF Cardinality(usable) < 3 \/ agreed = {} THEN [code |-> None, confidence |-> 0]
        ELSE LET c == CHOOSE a \in agreed : TRUE
             IN  [code |-> c, confidence |-> weight[Says(c)] \div Cardinality(Says(c))]

Declared(s) == {s.mpls, s.clpi, s.pmt} \ {None}
Paired(s)   == s.mpls # None /\ s.mpls = s.clpi

\* Variant: only a unanimous declaration has to stand up to the content.
AcceptedUnanimous(s) == IF Cardinality(Declared(s)) = 1 THEN Declared(s) ELSE {}

\* The declaration that would be believed: a set of at most one code.
Accepted(s) == IF Paired(s) THEN {s.mpls}
               ELSE IF Cardinality(Declared(s)) = 1 THEN Declared(s) ELSE {}

Strong(c) == c.code # None /\ c.confidence >= 85

\* LanguageResolver.resolve: the code that needs no review, or none.
Resolution(s, c) ==
    IF Strong(c) /\ Accepted(s) # {} /\ c.code \notin Accepted(s) THEN {}
    ELSE IF Paired(s) THEN {s.mpls}
    ELSE IF Declared(s) # {} THEN Accepted(s)
    ELSE IF c.code # None /\ c.confidence >= 90 THEN {c.code} ELSE {}

Undisputed(s) == Resolution(s, [code |-> None, confidence |-> 0])

-----------------------------------------------------------------------------
(* The runtime of the speech model                                           *)

LanguagesInit ==
    /\ streams \in Streams /\ wanted \in {c \in Choices : DOMAIN c = DOMAIN streams}
    /\ title = 1
    /\ wavs = [t \in Tracks |-> [i \in Samples |-> Broken]]
    /\ tags = [t \in Tracks |-> [i \in Samples |-> NoTag]]
    /\ heard = [t \in Tracks |-> Unheard]
    /\ pass = Waiting("idle") /\ told = Untold
    /\ languageStops = 0 /\ reselections = 0

Kept == <<streams, wanted, title, languageStops, reselections>>

\* Variant: a sample is good if it is the file of its marker.
SampleIsValidAnyway(t, i) ==
    wavs[t][i] # Broken /\ tags[t][i].file = wavs[t][i]

\* The marker names the source and the file.
SampleIsValid(t, i) ==
    wavs[t][i] # Broken /\ tags[t][i] = [source |-> title, file |-> wavs[t][i]]

\* A cached result is of this source and of these samples.
Cached(t) == heard[t].source = title /\ heard[t].samples = wavs[t]

\* A cut that does not end leaves the file as it was, or a part of the new one.
CutsShort == wavs' = wavs \/ wavs' = [wavs EXCEPT ![pass.track][pass.sample] = Broken]

\* The track cannot be listened to: the sample cannot be cut, is no sound, or
\* there is no model.  A stop of the worker during the cut ends here as well.
ListenFails ==
    /\ \/ /\ pass.at = "sample" /\ ~SampleIsValid(pass.track, pass.sample)
          /\ CutsShort
       \/ pass.at = "listen" /\ ~Cached(pass.track) /\ UNCHANGED wavs
    /\ pass' = [pass EXCEPT !.at = "track", !.open = @ \cup {pass.track}]
    /\ UNCHANGED <<Kept, tags, heard, told>>

CutSample ==
    /\ pass.at = "sample" /\ ~SampleIsValid(pass.track, pass.sample)
    /\ wavs' = [wavs EXCEPT ![pass.track][pass.sample] = title]
    /\ pass' = [pass EXCEPT !.at = "tag"]
    /\ UNCHANGED <<Kept, tags, heard, told>>

NextSample == IF pass.sample < SampleCount
              THEN [pass EXCEPT !.at = "sample", !.sample = @ + 1]
              ELSE [pass EXCEPT !.at = "listen"]

TagSample ==
    /\ pass.at = "tag"
    /\ tags' = [tags EXCEPT ![pass.track][pass.sample] =
                    [source |-> title, file |-> wavs[pass.track][pass.sample]]]
    /\ pass' = NextSample
    /\ UNCHANGED <<Kept, wavs, heard, told>>

KeepSample ==
    /\ pass.at = "sample" /\ SampleIsValid(pass.track, pass.sample)
    /\ pass' = NextSample
    /\ UNCHANGED <<Kept, wavs, tags, heard, told>>

Listen ==
    /\ pass.at = "listen"
    /\ IF Cached(pass.track) THEN UNCHANGED heard
       ELSE \E said \in [Samples -> Detections] :
              heard' = [heard EXCEPT ![pass.track] =
                  [source |-> title, samples |-> wavs[pass.track],
                   code |-> Consensus(said).code, confidence |-> Consensus(said).confidence]]
    /\ pass' = [pass EXCEPT !.at = "decide"]
    /\ UNCHANGED <<Kept, wavs, tags, told>>

-----------------------------------------------------------------------------
(* PipelineWorker._resolve_selected_languages                                *)

\* The report speaks for this selection.
Told == told.status = "completed" /\ told.wanted = wanted
ToldOf(t) == Told /\ t \in DOMAIN told.resolved

\* What the loader leaves open: it takes the languages of the report.
KeptTracks == {t \in Tracks : wanted[t] # "omit"}
Open     == {t \in KeptTracks : wanted[t] = None /\ ~ToldOf(t)}

LanguagesBegin ==
    /\ pass.at = "idle"
    /\ pass' = [Waiting("track") EXCEPT !.todo = Open,
                    !.resolved = IF Told THEN told.resolved ELSE <<>>]
    /\ UNCHANGED <<Kept, wavs, tags, heard, told>>

\* A subtitle is believed what it declares, a sound track is listened to.
NextTrack ==
    /\ pass.at = "track"
    /\ \E t \in pass.todo :
         /\ \A u \in pass.todo : t <= u
         /\ LET rest == [pass EXCEPT !.todo = @ \ {t}] IN
            pass' = IF streams[t].kind = "audio"
                      THEN [rest EXCEPT !.at = "sample", !.track = t, !.sample = 1]
                    ELSE IF Undisputed(streams[t]) # {} THEN rest
                    ELSE [rest EXCEPT !.open = @ \cup {t}]
    /\ UNCHANGED <<Kept, wavs, tags, heard, told>>

DecideTrack ==
    /\ pass.at = "decide"
    /\ LET t == pass.track
           r == Resolution(streams[t], heard[t])
       IN  pass' = IF r = {} THEN [pass EXCEPT !.at = "track", !.open = @ \cup {t}]
                   ELSE [pass EXCEPT !.at = "track",
                           !.resolved = [u \in DOMAIN @ \cup {t} |->
                               IF u = t THEN [code |-> CHOOSE c \in r : TRUE, heard |-> heard[t]]
                               ELSE @[u]]]
    /\ UNCHANGED <<Kept, wavs, tags, heard, told>>

ReportLanguages ==
    /\ pass.at = "track" /\ pass.todo = {}
    /\ told' = [wanted |-> wanted, resolved |-> pass.resolved,
                status |-> IF pass.open = {} THEN "completed" ELSE "needs_review"]
    /\ pass' = Waiting(IF pass.open = {} THEN "done" ELSE "review")
    /\ UNCHANGED <<Kept, wavs, tags, heard>>

-----------------------------------------------------------------------------
(* Around it                                                                 *)

\* The job is taken up again after a review, or prepared once more.
LanguagesAgain ==
    /\ pass.at \in {"review", "done"}
    /\ pass' = Waiting("idle")
    /\ UNCHANGED <<Kept, wavs, tags, heard, told>>

ReviseLanguages ==
    /\ pass.at \in {"review", "done"} /\ reselections < MaxRevisions
    /\ reselections' = reselections + 1
    /\ wanted' \in {c \in Choices : DOMAIN c = Tracks}
    /\ pass' = Waiting("idle")
    /\ UNCHANGED <<streams, title, wavs, tags, heard, told, languageStops>>

\* The remux is made anew before the languages are looked at.
NewReference ==
    /\ pass.at = "idle" /\ title < MaxReferences
    /\ title' = title + 1
    /\ UNCHANGED <<streams, wanted, wavs, tags, heard, pass, told, languageStops, reselections>>

\* A crash; a sample may be cut short.
LanguageCrash ==
    /\ pass.at \notin {"idle", "review", "done"} /\ languageStops < MaxLanguageStops
    /\ languageStops' = languageStops + 1
    /\ IF pass.at = "sample" /\ ~SampleIsValid(pass.track, pass.sample)
         THEN CutsShort ELSE UNCHANGED wavs
    /\ pass' = Waiting("idle")
    /\ UNCHANGED <<streams, wanted, title, tags, heard, told, reselections>>

LanguagesNext ==
    \/ LanguagesBegin \/ NextTrack \/ CutSample \/ TagSample \/ KeepSample \/ ListenFails
    \/ Listen \/ DecideTrack \/ ReportLanguages
    \/ LanguagesAgain \/ ReviseLanguages \/ NewReference \/ LanguageCrash

LanguagesSpec == LanguagesInit /\ [][LanguagesNext]_languageVars

-----------------------------------------------------------------------------
(* What the later stages write into the file: the operator's word, the       *)
(* report's, or what the disc declares without contradiction.                *)
Written(t) == IF wanted[t] # None THEN {wanted[t]}
              ELSE IF ToldOf(t) THEN {told.resolved[t].code}
              ELSE Undisputed(streams[t])

\* The verdict on a track rests on samples that are all of one reference.
OfOneReference(v, r) == v.heard.source = r /\ \A i \in Samples : v.heard.samples[i] = r

(* A job goes on to the encode only when every track it keeps has a          *)
(* language, and no sound track has one that a confident hearing speaks      *)
(* against, whatever the declarations say and whoever else agrees with them. *)
(* What was heard is of one reference, though samples, results and reports   *)
(* outlive references, selections and crashes; a verdict of this pass is of  *)
(* the present one.                                                          *)
LanguagesAreEarned ==
    /\ pass.at \in {"track", "sample", "tag", "listen", "decide"} =>
         \A t \in DOMAIN pass.resolved :
            OfOneReference(pass.resolved[t], IF ToldOf(t) THEN told.resolved[t].heard.source ELSE title)
    /\ pass.at = "done" =>
         \A t \in KeptTracks :
            /\ Written(t) # {}
            /\ wanted[t] = None /\ streams[t].kind = "audio" =>
                 /\ ToldOf(t)
                 /\ LET h == told.resolved[t].heard IN
                    /\ OfOneReference(told.resolved[t], h.source)
                    /\ Strong(h) => Written(t) = {h.code}
=============================================================================
