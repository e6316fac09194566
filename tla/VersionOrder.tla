---------------------------- MODULE VersionOrder ----------------------------
(***************************************************************************)
(* What checkResourceVersion (sawchain.go) finds when it compares two      *)
(* versions.                                                               *)
(***************************************************************************)
EXTENDS ResourceVersions

VARIABLES actualResourceVersion, minResourceVersion

(* The comparison in checkResourceVersion orders two versions as texts,    *)
(* whatever the numbers they spell.                                        *)
ComparesTexts ==
    RvLess(actualResourceVersion, minResourceVersion) <=>
        TextLess(Digits[actualResourceVersion], Digits[minResourceVersion])
=============================================================================
