----------------------------- MODULE SdkExport -----------------------------
(***************************************************************************)
(* `soc_image.py sdk export` and `sdk verify` (src/socimage/sdk.py): the   *)
(* adaptation kit of the checkout is copied into a staging directory with  *)
(* the lock of the source contexts and a manifest, verified there, renamed *)
(* into place and verified again.  People may edit the kit while it is     *)
(* copied, the contexts may be changed, and the exported tree may be       *)
(* edited, with or without its manifest.                                   *)
(*                                                                         *)
(* Contents are versions.  Version 1 of a component is the one whose tree  *)
(* hash the program pins; 1 is also the first version of the contexts.     *)
(***************************************************************************)
EXTENDS Naturals, FiniteSets

CONSTANTS
    ProjectSource,  \* the components kept as sources of this project
    MaxChanges      \* bound: changes of the kit, the contexts and the export

ASSUME SdkAssumption == MaxChanges \in Nat

VARIABLES
    kit,        \* the checkout's kit: [component, layers, lock, junk]
    agentContext,  \* the version under .agent-context, 0 = none
    checkout,   \* the version of the checkouts under third_party
    sepc,       \* where the export is
    contexts,   \* the contexts the export resolved
    copied,     \* the parts of the kit copied so far
    stagedTree, \* the staging tree
    sdkTree,    \* the exported tree, or NoSdk
    verdict,    \* the last answer about sdkTree as it is now
    touched,    \* ghost: the exported tree was edited
    changes

seVars == <<kit, agentContext, checkout, sepc, contexts, copied, stagedTree, sdkTree, verdict,
            touched, changes>>

Junk == {"cache", "binary", "symlink"}
NoSdk == [manifest |-> {}]
Parts == ProjectSource \cup {"layers", "junk"}

\* Contexts resolved for the agents win; else the packaged lock, if the checkouts have it.
LockedContexts == IF checkout = kit.lock THEN {kit.lock} ELSE {}
ResolvedContexts == IF agentContext # 0 THEN {agentContext} ELSE LockedContexts

\* _manifest: a digest of every other file.
Manifest(t) == [component |-> t.component, layers |-> t.layers, lock |-> t.lock,
                lockHash |-> t.lockHash, junk |-> t.junk]
ComponentsVerified(t) == \A c \in ProjectSource : t.component[c] = 1
SafeFiles(t) == t.junk \subseteq {"cache", "binary"}
VerifySdk_AnyComponent(t, resolved) ==
    /\ SafeFiles(t) /\ t.junk = {} /\ t.manifest = Manifest(t)
    /\ t.lockHash = t.lock /\ resolved = {t.lock} /\ t.layers = t.lock
VerifySdk(t, resolved) ==
    /\ SafeFiles(t) /\ t.junk = {} /\ t.manifest = Manifest(t)
    /\ t.lockHash = t.lock /\ resolved = {t.lock} /\ t.layers = t.lock
    /\ ComponentsVerified(t)

BeginSdkExport ==
    /\ sepc = "idle" /\ sdkTree = NoSdk /\ ResolvedContexts # {}
    /\ contexts' = ResolvedContexts /\ copied' = {} /\ sepc' = "copy"
    /\ stagedTree' = [component |-> [c \in ProjectSource |-> 0], layers |-> 0, lock |-> 0,
                  lockHash |-> 0, junk |-> {}, manifest |-> {}]
    /\ UNCHANGED <<kit, agentContext, checkout, sdkTree, verdict, touched, changes>>

\* copytree, one part at a time; Python caches are left behind, links are followed.
CopyPart ==
    /\ sepc = "copy"
    /\ \E part \in Parts \ copied :
          /\ copied' = copied \cup {part}
          /\ stagedTree' = CASE part = "layers" -> [stagedTree EXCEPT !.layers = kit.layers]
                         [] part = "junk" -> [stagedTree EXCEPT !.junk = kit.junk \ {"cache", "symlink"}]
                         [] OTHER -> [stagedTree EXCEPT !.component[part] = kit.component[part]]
    /\ UNCHANGED <<kit, agentContext, checkout, sepc, contexts, sdkTree, verdict, touched, changes>>

\* The lock, its digest in sdk.json, the manifest; then the tree is verified and renamed,
\* or thrown away.
WriteLockAndManifest ==
    /\ sepc = "copy" /\ copied = Parts
    /\ LET v == CHOOSE x \in contexts : TRUE
           t == [stagedTree EXCEPT !.lock = v, !.lockHash = v]
       IN stagedTree' = [t EXCEPT !.manifest = Manifest(t)]
    /\ sepc' = "verify"
    /\ UNCHANGED <<kit, agentContext, checkout, contexts, copied, sdkTree, verdict, touched, changes>>
PublishSdk ==
    /\ sepc = "verify"
    /\ IF VerifySdk(stagedTree, contexts)
       THEN sdkTree' = stagedTree /\ verdict' = "verified"
       ELSE UNCHANGED <<sdkTree, verdict>>
    /\ sepc' = "idle"
    /\ UNCHANGED <<kit, agentContext, checkout, contexts, copied, stagedTree, touched, changes>>

\* The command `verify`, with the contexts of the checkout as it is now; it raises when
\* there are none.
VerifyCommand ==
    /\ sepc = "idle" /\ sdkTree # NoSdk
    /\ verdict' = IF VerifySdk(sdkTree, ResolvedContexts) THEN "verified" ELSE "blocked"
    /\ UNCHANGED <<kit, agentContext, checkout, sepc, contexts, copied, stagedTree, sdkTree, touched, changes>>

Change == changes < MaxChanges /\ changes' = changes + 1
EditKit ==
    /\ Change
    /\ \/ \E c \in ProjectSource, v \in 1..2 : kit' = [kit EXCEPT !.component[c] = v]
       \/ \E v \in 1..2 : kit' = [kit EXCEPT !.layers = v, !.lock = v]
       \/ \E j \in Junk : kit' = [kit EXCEPT !.junk = @ \cup {j}]
    /\ UNCHANGED <<agentContext, checkout, sepc, contexts, copied, stagedTree, sdkTree, verdict, touched>>
ChangeContexts ==
    /\ Change
    /\ \/ agentContext' \in 0..2 /\ UNCHANGED checkout
       \/ checkout' \in 1..2 /\ UNCHANGED agentContext
    /\ verdict' = "none"
    /\ UNCHANGED <<kit, sepc, contexts, copied, stagedTree, sdkTree, touched>>
EditExport ==
    /\ Change /\ sdkTree # NoSdk
    /\ \E c \in ProjectSource, withManifest \in BOOLEAN :
          LET t == [sdkTree EXCEPT !.component[c] = 3] IN
          sdkTree' = IF withManifest THEN [t EXCEPT !.manifest = Manifest(t)] ELSE t
    /\ touched' = TRUE /\ verdict' = "none"
    /\ UNCHANGED <<kit, agentContext, checkout, sepc, contexts, copied, stagedTree>>

SdkInit ==
    /\ kit \in [component : [ProjectSource -> 1..2], layers : {1}, lock : {1}, junk : SUBSET Junk]
    /\ agentContext \in 0..2 /\ checkout = 1
    /\ sepc = "idle" /\ contexts = {} /\ copied = {}
    /\ stagedTree = NoSdk /\ sdkTree = NoSdk
    /\ verdict = "none" /\ touched = FALSE
    /\ changes = 0

SdkNext == \/ BeginSdkExport \/ CopyPart \/ WriteLockAndManifest \/ PublishSdk \/ VerifyCommand
           \/ EditKit \/ ChangeContexts \/ EditExport

\* sdk.py export and verify: whatever happens to the kit while it is copied, an export is
\* the pinned components under the contexts of one moment and free of generated files;
\* and "verified" is never said of a tree whose components are not the pinned ones, even
\* when its manifest was rewritten to fit.
SdkIsPinned ==
    /\ sdkTree # NoSdk /\ ~touched =>
          ComponentsVerified(sdkTree) /\ sdkTree.layers = sdkTree.lock /\ sdkTree.junk = {}
    /\ verdict = "verified" => ComponentsVerified(sdkTree) /\ sdkTree.manifest = Manifest(sdkTree)
=============================================================================
