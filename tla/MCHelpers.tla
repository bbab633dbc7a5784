------------------------------ MODULE MCHelpers ------------------------------
(* Eight components that share no state, checked side by side: a behaviour  *)
(* is one of a single component, the others stand at their beginning.       *)
EXTENDS CrfSearch, Backup, ReleaseUpdate, UploadKit, QualityGate, DynamicHdr, SourceStage, Languages

VARIABLE part  \* the component this behaviour is of

\* A lower bound that is no multiple of a quarter and a range that cuts off a
\* nominal CRF, and scores on, near and far from the target.
MCConfigs == {[min8 |-> 3, max8 |-> 17], [min8 |-> 4, max8 |-> 8]}
MCScores  == {-60, -3, 5, 40}

\* Discs with HDR10+ on a base layer, with profile 7, with profile 8 and
\* HDR10+, and with a profile that cannot be kept.
Carries(plus, dolby, base) == [plus |-> plus, dolby |-> dolby, base |-> base]
MCDiscs == {Carries(TRUE, 0, TRUE), Carries(FALSE, 7, TRUE),
            Carries(TRUE, 8, TRUE), Carries(FALSE, 5, FALSE)}

Selects(mode, film, crop, exact) == [mode |-> mode, title |-> film, crop |-> crop, exact |-> exact]
MCRequests == {Selects("auto", 1, FALSE, TRUE), Selects("hdr10plus", 2, FALSE, TRUE),
               Selects("dolby_vision", 1, TRUE, TRUE), Selects("dolby_vision", 1, FALSE, TRUE),
               Selects("discard", 2, FALSE, TRUE), Selects("auto", 1, FALSE, FALSE)}

\* A sound track of each kind of declaration, with a subtitle that declares
\* one, and a title that declares nothing.
Declares(kind, mpls, clpi, pmt) == [kind |-> kind, mpls |-> mpls, clpi |-> clpi, pmt |-> pmt]
MCUndeclared == <<Declares("audio", None, None, None), Declares("subtitle", None, None, None)>>
MCStreams ==
    LET sound == {Declares("audio", "fra", "fra", "eng"), Declares("audio", None, None, None),
                  Declares("audio", "fra", "eng", None), Declares("audio", None, "fra", None)}
    IN  (sound \X {Declares("subtitle", "fra", "fra", None)}) \cup {MCUndeclared}
MCChoices == {None, "fra"} \X {None, "omit"}
Hears(code, confidence) == [code |-> code, confidence |-> confidence]
MCDetections == {Hears("fra", 95), Hears("eng", 95), Hears("fra", 78), Hears(None, 0)}

Parts == {"crf", "backup", "update", "kit", "gate", "hdr", "stage", "language"}

\* A component that is not looked at has one beginning.
HelpersInit ==
    /\ part \in Parts
    /\ CrfInit        /\ (part # "crf" => ask.nominal = 3 /\ ask.config.min8 = 3)
    /\ BackupInit     /\ (part # "backup" => file.schema = SchemaVersion)
    /\ UpdateInit     /\ (part # "update" => installed = 1)
    /\ KitInit
    /\ GateInit       /\ (part # "gate" => \A c \in DOMAIN Kind : c \notin flaws)
    /\ DynamicHdrInit /\ (part # "hdr" => disc = Carries(TRUE, 8, TRUE))
    /\ SourceStageInit
    /\ LanguagesInit  /\ (part # "language" => streams = MCUndeclared /\ wanted = <<None, None>>)

HelpersNext ==
    /\ part' = part
    /\ \/ /\ part = "crf" /\ CrfNext
          /\ UNCHANGED <<backupVars, updateVars, kitVars, gateVars, hdrVars, stageVars, languageVars>>
       \/ /\ part = "backup" /\ BackupNext
          /\ UNCHANGED <<crfVars, updateVars, kitVars, gateVars, hdrVars, stageVars, languageVars>>
       \/ /\ part = "update" /\ UpdateNext
          /\ UNCHANGED <<crfVars, backupVars, kitVars, gateVars, hdrVars, stageVars, languageVars>>
       \/ /\ part = "kit" /\ KitNext
          /\ UNCHANGED <<crfVars, backupVars, updateVars, gateVars, hdrVars, stageVars, languageVars>>
       \/ /\ part = "gate" /\ GateNext
          /\ UNCHANGED <<crfVars, backupVars, updateVars, kitVars, hdrVars, stageVars, languageVars>>
       \/ /\ part = "hdr" /\ DynamicHdrNext
          /\ UNCHANGED <<crfVars, backupVars, updateVars, kitVars, gateVars, stageVars, languageVars>>
       \/ /\ part = "stage" /\ SourceStageNext
          /\ UNCHANGED <<crfVars, backupVars, updateVars, kitVars, gateVars, hdrVars, languageVars>>
       \/ /\ part = "language" /\ LanguagesNext
          /\ UNCHANGED <<crfVars, backupVars, updateVars, kitVars, gateVars, hdrVars, stageVars>>

helperVars == <<part, crfVars, backupVars, updateVars, kitVars, gateVars, hdrVars, stageVars, languageVars>>
HelpersSpec == HelpersInit /\ [][HelpersNext]_helperVars
=============================================================================
