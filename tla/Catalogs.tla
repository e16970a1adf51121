------------------------------ MODULE Catalogs ------------------------------
(***************************************************************************)
(* Which catalogs a run judges by (agentce/commands/__init__.py) and the   *)
(* signatures they must carry (agentce/signing.py).                        *)
(*                                                                         *)
(* A catalog is [label, controls, shapes]: its id@version, a sequence of   *)
(* controls and a sequence of [of, shape], in the order they are loaded.   *)
(* A catalog directory is [catalog, tree, envelope]: what was loaded of it *)
(* and what digest_tree covered when, all directories loaded, it was       *)
(* verified.  The two are one unless a file changed in between or the      *)
(* catalog names a shape the walk leaves out, a dotfile or a path that     *)
(* leads out of the directory.  The digest stands for the content.  An     *)
(* envelope is [signatures, over], what the signed statement says the      *)
(* digest is; a signature is [key, issuer, good]: whether it verifies, and *)
(* the certificate too where there is one.                                 *)
(* A trust root is [keys, authorities].                                    *)
(***************************************************************************)
EXTENDS Shapes

CONSTANTS
    NoEnvelope,     \* no catalog.sig.json
    Unreadable,     \* one that is not JSON
    NoCertificate,  \* a signature by a pinned key
    NoShape         \* a control names no shape, or no shape is for it

\* dict.fromkeys: of equal elements the first.
Distinct(s) ==
    Picked(s, {k \in DOMAIN s : \A j \in DOMAIN s : s[j] = s[k] => k <= j})

\* TrustRoot.resolve and the verification under the key it gives.
Verifies(s, trust) ==
    /\ IF s.issuer # NoCertificate THEN s.issuer \in trust.authorities
                                   ELSE s.key \in trust.keys
    /\ s.good

\* Mutant: any envelope with a good signature is believed.
SignatureTroubleOfAnyTree(d, trust) ==
    IF d.envelope = NoEnvelope THEN "unsigned"
    ELSE IF d.envelope = Unreadable THEN "unreadable"
    ELSE IF ~\E k \in DOMAIN d.envelope.signatures :
                Verifies(d.envelope.signatures[k], trust) THEN "unverified"
    ELSE "none"

\* verify_catalog_directory
SignatureTrouble(d, trust) ==
    IF d.envelope = NoEnvelope THEN "unsigned"
    ELSE IF d.envelope = Unreadable THEN "unreadable"
    ELSE IF ~\E k \in DOMAIN d.envelope.signatures :
                Verifies(d.envelope.signatures[k], trust) THEN "unverified"
    ELSE IF d.envelope.over # d.tree THEN "other_content"
    ELSE "none"

\* _verify_catalog_dirs: the directories whose trouble the operator waives.
Waived(dirs, trust) ==
    {k \in DOMAIN dirs : SignatureTrouble(dirs[k], trust) # "none"}

\* Of the directories with a label the last one, else a vendored catalog.
CatalogFor(dirs, vendored, label) ==
    LET ks == {k \in DOMAIN dirs : dirs[k].catalog.label = label}
    IN  IF ks # {} THEN dirs[CHOOSE k \in ks : \A j \in ks : j <= k].catalog
                   ELSE CHOOSE c \in vendored : c.label = label

Labels(dirs) == {dirs[k].catalog.label : k \in DOMAIN dirs}

\* _resolve_catalogs: what the run asks for is [requested, dirs, trust,
\* allow], requested being the --catalog list; declared is the profile's.
Wanted(ask, declared) ==
    IF ask.requested # <<>> THEN ask.requested
    ELSE IF ask.dirs # <<>> THEN <<>> ELSE declared

ResolveTrouble(ask, declared, vendored) ==
    LET ids == ToSet(Wanted(ask, declared))
        loaded == Labels(ask.dirs)
    IN  IF ~ask.allow /\ Waived(ask.dirs, ask.trust) # {} THEN "catalog_unverified"
        ELSE IF ids = {} /\ loaded = {} THEN "catalog_missing"
        ELSE IF ~ids \subseteq loaded \cup {c.label : c \in vendored}
             THEN "catalog_unresolved"
        ELSE IF ids # {} /\ ~loaded \subseteq ids THEN "catalog_mismatch"
        ELSE "none"

\* The catalogs are those wanted and then the directories', each once.
WantedLabels(ask, declared) ==
    Distinct(Wanted(ask, declared) \o [k \in DOMAIN ask.dirs |-> ask.dirs[k].catalog.label])
Resolve(ask, declared, vendored) ==
    LET labels == WantedLabels(ask, declared)
    IN  [k \in DOMAIN labels |-> CatalogFor(ask.dirs, vendored, labels[k])]

\* Catalog.shape_for: the control's own shape by its name, else the first
\* with a target, which may be another control's.
Targeted(s) == s.class # {} \/ s.nodes # {} \/ s.where # {}
ShapeFor(catalog, control) ==
    LET own == SelectSeq(catalog.shapes, LAMBDA x : x.of = control.id)
        any == SelectSeq(catalog.shapes, LAMBDA x : Targeted(x.shape))
    IN  IF control.shape = NoShape THEN NoShape
        ELSE IF own # <<>> THEN Head(own).shape
        ELSE IF any # <<>> THEN Head(any).shape
        ELSE NoShape
=============================================================================
