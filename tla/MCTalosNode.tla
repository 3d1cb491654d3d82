---------------------------- MODULE MCTalosNode ----------------------------
(* Small instances of TalosNode.                                           *)
EXTENDS TalosNode

CONSTANTS c1, c2, c3, noExt, e1

TwoCfgs    == {c1, c2}
OneDocEach == [c \in TwoCfgs |-> c]

\* c3 differs from c1 in the documents appended to the first one.
ThreeCfgs      == {c1, c2, c3}
SharedFirstDoc == [c \in ThreeCfgs |-> IF c = c3 THEN c1 ELSE c]

MCExts == {noExt, e1}

WithSpec(cfgs, vers, exts, drifts) ==
    [cfg : cfgs, ver : vers, ext : exts, drift : drifts]
Image(ext, tag) == [ext |-> ext, tag |-> tag]
MC_Machine(mode, cfg, container) ==
    [mode |-> mode, cfg |-> cfg, ver |-> 1, ext |-> noExt, pending |-> None,
     container |-> container]

Blank == MC_Machine("maintenance", None, FALSE)
Installed == MC_Machine("running", c2, FALSE)

\* Safety under stale reads: two configurations, version 2 with or without an
\* extension, an annotation that asks for version 1.
SafetySpecs ==
    WithSpec({c1}, {NoTag, 2}, {e1}, {TRUE}) \cup
    WithSpec({c2}, {NoTag}, {noExt}, {FALSE})
SafetyImages == {Image(noExt, 1)}
SafetyMachines == {Blank}

\* Reset and upgrades with an up-to-date cache.
ImperativeSpecs == WithSpec({c1}, {NoTag, 2}, {noExt}, {TRUE})
ImperativeImages ==
    {Image(noExt, 1), Image(noExt, 2), Image(noExt, NoTag), Image(noExt, Opaque)}
ImperativeMachines == {Blank, MC_Machine("running", c2, TRUE)}

\* The runs that end in a counterexample.
PlainSpecs == WithSpec(TwoCfgs, {NoTag}, {noExt}, {TRUE})
AdoptedMachines == {Installed}

=============================================================================
