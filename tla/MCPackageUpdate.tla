-------------------------- MODULE MCPackageUpdate --------------------------
(* An ipk device of two architectures, with different or with the same priorities, and a
   release with packages for them in both formats.                                    *)
EXTENDS PackageUpdate

CONSTANTS arm, mips, w1, w2

MCManifest == <<[format |-> "apk", arch |-> arm], [format |-> "ipk", arch |-> mips],
                [format |-> "ipk", arch |-> arm]>>
MCDevices == {[a \in {arm, mips} |-> IF a = mips THEN 2 ELSE 1], [a \in {arm, mips} |-> 1]}
=============================================================================
