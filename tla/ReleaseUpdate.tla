---------------------------- MODULE ReleaseUpdate ----------------------------
(* The daily release check and the unattended update (install/               *)
(* release_update.py): one run at a time under the lock, with the status     *)
(* file, the downloaded release and the installer, whose own                 *)
(* transaction is the module Installation.  Tags appear, move and vanish     *)
(* while a run is under way.  A release is a version number; the download    *)
(* itself, which every run removes, is what the run has.                     *)
EXTENDS Integers

CONSTANTS
    Versions,        \* versions that may be published or installed
    Automatic,       \* automatic_install
    RequireSigned,   \* require_signed_tags
    MaxPublishings, MaxRuns, MaxKills

MaxFailed == 2       \* MAX_FAILED_ATTEMPTS

ASSUME UpdateAssumption ==
    /\ Versions \subseteq Nat \ {0} /\ Automatic \in BOOLEAN /\ RequireSigned \in BOOLEAN
    /\ MaxPublishings \in Nat /\ MaxRuns \in Nat /\ MaxKills \in Nat

VARIABLES
    published,   \* tag -> what is behind it: good, broken, unsigned, incoherent
    installed,   \* the version that is installed
    status,      \* status.json: state, latest tag, and the failed attempts of one tag
    check,       \* the run: at, command, tag, what it downloaded, its document
    strikes,     \* failures of the newest tag since it is the newest
    publishings, runs, kills

updateVars == <<published, installed, status, check, strikes, publishings, runs, kills>>

Qualities == {"good", "broken", "unsigned", "incoherent"}   \* broken: its installer fails
NoStatus  == [state |-> "none", latest |-> 0, failedTag |-> 0, failures |-> 0]
AtRest    == [at |-> "rest", command |-> "run", tag |-> 0, unsigned |-> FALSE, have |-> "none", doc |-> NoStatus]

Releases     == DOMAIN published
Newest(tags) == CHOOSE v \in tags : \A w \in tags : w <= v
IsNewer(v)     == v > installed
Failures(doc, tag) == IF doc.failedTag = tag THEN doc.failures ELSE 0

UpdateInit ==
    /\ installed \in Versions /\ published = [v \in {installed} |-> "good"]
    /\ status = NoStatus /\ check = AtRest
    /\ strikes = 0 /\ publishings = 0 /\ runs = 0 /\ kills = 0

-----------------------------------------------------------------------------
(* The repository and the operator                                           *)

NewestIs(tags, others) == tags # {} /\ others # {} /\ Newest(tags) = Newest(others)

\* A tag is published or moved.
Publish ==
    /\ publishings < MaxPublishings /\ publishings' = publishings + 1
    /\ \E v \in Versions, q \in Qualities :
         published' = [w \in DOMAIN published \cup {v} |-> IF w = v THEN q ELSE published[w]]
    /\ strikes' = IF NewestIs(DOMAIN published, DOMAIN published') THEN strikes ELSE 0
    /\ UNCHANGED <<installed, status, check, runs, kills>>

Withdraw ==
    /\ publishings < MaxPublishings /\ publishings' = publishings + 1
    /\ \E v \in DOMAIN published : published' = [w \in DOMAIN published \ {v} |-> published[w]]
    /\ strikes' = IF NewestIs(DOMAIN published, DOMAIN published') THEN strikes ELSE 0
    /\ UNCHANGED <<installed, status, check, runs, kills>>

-----------------------------------------------------------------------------
(* The run                                                                   *)

\* The timer, or the operator with check or install --tag.
RunStarts(command) ==
    /\ check.at = "rest" /\ runs < MaxRuns /\ runs' = runs + 1
    /\ \E tag \in Versions, unsigned \in BOOLEAN :
         /\ command # "install" => tag = Newest(Versions) /\ ~unsigned
         /\ check' = [AtRest EXCEPT !.at = "look", !.command = command, !.tag = tag,
                                    !.unsigned = unsigned, !.doc = status]
    /\ strikes' = IF command = "install" THEN 0 ELSE strikes
    /\ UNCHANGED <<published, installed, status, publishings, kills>>

\* record, and the end of the run.
Recorded(state, doc) ==
    /\ status' = [doc EXCEPT !.state = state]
    /\ check' = AtRest

Counted(doc, tag, n) == [doc EXCEPT !.failedTag = IF n = 0 THEN 0 ELSE tag, !.failures = n]

\* The repository does not answer, or has no release.
CheckFails ==
    /\ check.at \in {"look", "gate"}
    /\ Recorded("check_failed", check.doc)
    /\ UNCHANGED <<published, installed, strikes, publishings, runs, kills>>

\* What to do about the newest release.
RunLooks ==
    /\ check.at = "look" /\ (check.command = "install" \/ Releases # {})
    /\ LET tag == IF check.command = "install" THEN check.tag ELSE Newest(Releases)
           doc == [check.doc EXCEPT !.latest = tag]
           unattended == check.command # "install" IN
       \/ unattended /\ ~IsNewer(tag) /\ Recorded("up_to_date", doc)
       \/ /\ unattended /\ IsNewer(tag) /\ (check.command = "check" \/ ~Automatic)
          /\ Recorded("update_available", doc)
       \/ /\ unattended /\ IsNewer(tag) /\ check.command = "run" /\ Automatic
          /\ Failures(doc, tag) >= MaxFailed /\ Recorded("blocked", doc)
       \/ /\ unattended => /\ IsNewer(tag) /\ check.command = "run" /\ Automatic
                           /\ Failures(doc, tag) < MaxFailed
          /\ check' = [check EXCEPT !.at = "gate", !.tag = tag, !.doc = doc] /\ UNCHANGED status
    /\ UNCHANGED <<published, installed, strikes, publishings, runs, kills>>

\* No passwordless sudo, no source root, or a busy queue.
Deferrals == {"manual_update_required", "deferred"}

RunDefers ==
    /\ check.at = "gate"
    /\ \E state \in Deferrals : Recorded(state, check.doc)
    /\ UNCHANGED <<published, installed, strikes, publishings, runs, kills>>

\* What is behind the tag now is what will be verified and installed.
RunDownloads ==
    /\ check.at = "gate"
    /\ IF check.tag \in DOMAIN published
         THEN /\ check' = [check EXCEPT !.at = "verify", !.have = published[check.tag]]
              /\ UNCHANGED status
         ELSE Recorded("check_failed", check.doc)
    /\ UNCHANGED <<published, installed, strikes, publishings, runs, kills>>

Coherent(have) == have # "incoherent"
Trusted(have)  == Coherent(have) /\ (RequireSigned /\ ~check.unsigned => have # "unsigned")

\* Variant: only the signature is looked at.
RunVerifiesNothing ==
    /\ check.at = "verify"
    /\ check' = [check EXCEPT !.at = "install"] /\ UNCHANGED status
    /\ UNCHANGED <<published, installed, strikes, publishings, runs, kills>>

\* A release that contradicts itself or is not signed is blocked at once.
RunVerifies ==
    /\ check.at = "verify"
    /\ IF Trusted(check.have)
         THEN check' = [check EXCEPT !.at = "install"] /\ UNCHANGED status
         ELSE Recorded("invalid_release", Counted(check.doc, check.doc.latest, MaxFailed))
    /\ UNCHANGED <<published, installed, strikes, publishings, runs, kills>>

VerificationFails ==
    /\ check.at = "verify"
    /\ Recorded("check_failed", check.doc)
    /\ UNCHANGED <<published, installed, strikes, publishings, runs, kills>>

\* The installer found the queue busy (exit 3).
InstallerDefers ==
    /\ check.at = "install"
    /\ Recorded("deferred", check.doc)
    /\ UNCHANGED <<published, installed, strikes, publishings, runs, kills>>

InstallerFails ==
    /\ check.at = "install"
    /\ Recorded("install_failed", Counted(check.doc, check.tag, Failures(check.doc, check.tag) + 1))
    /\ strikes' = IF check.command = "run" /\ Releases # {} /\ check.tag = Newest(Releases)
                  THEN strikes + 1 ELSE strikes
    /\ UNCHANGED <<published, installed, publishings, runs, kills>>

InstallerInstalls ==
    /\ check.at = "install" /\ check.have # "broken"
    /\ installed' = check.tag
    /\ check' = [check EXCEPT !.at = "installed"]
    /\ UNCHANGED <<published, status, strikes, publishings, runs, kills>>

\* The version that is installed now is asked for, which may fail.
RunEnds ==
    /\ check.at = "installed"
    /\ \/ Recorded("installed", Counted(check.doc, check.tag, 0))
       \/ Recorded("check_failed", check.doc)
    /\ UNCHANGED <<published, installed, strikes, publishings, runs, kills>>

\* A stop, a limit of systemd or a reboot.  The transaction of the installer
\* is finished or undone by its own recovery.
RunKilled ==
    /\ check.at # "rest" /\ kills < MaxKills /\ kills' = kills + 1
    /\ check' = AtRest
    /\ installed' \in {installed} \cup
          (IF check.at = "install" /\ check.have # "broken" THEN {check.tag} ELSE {})
    /\ UNCHANGED <<published, status, strikes, publishings, runs>>

UpdateNext ==
    \/ Publish \/ Withdraw \/ CheckFails \/ RunLooks \/ RunDefers \/ RunDownloads
    \/ \E command \in {"run", "check", "install"} : RunStarts(command)
    \/ RunVerifies \/ VerificationFails \/ InstallerDefers \/ InstallerFails \/ InstallerInstalls
    \/ RunEnds \/ RunKilled

UpdateSpec == UpdateInit /\ [][UpdateNext]_updateVars

-----------------------------------------------------------------------------
(* A run nobody watches never installs an older release, nor one that        *)
(* contradicts its tag or, where signatures are required, is not signed,     *)
(* whatever happens to the tags while it works.  A release that failed twice *)
(* is left alone as long as it is the newest and the operator installs       *)
(* nothing.                                                                  *)
UpdatesAreSound ==
    [][/\ installed' # installed =>
            /\ check.command # "check"
            /\ check.have # "incoherent"
            /\ check.command = "run" =>
                 Automatic /\ installed' > installed /\ (RequireSigned => check.have # "unsigned")
       /\ strikes' <= MaxFailed]_updateVars
=============================================================================
