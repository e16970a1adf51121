----------------------------- MODULE MCRelease -----------------------------
(***************************************************************************)
(* A small instance of Release: two of the engines, two base catalogs.     *)
(***************************************************************************)
EXTENDS Release

MCEngines == <<"python", "java">>
MCCatalogOrder == <<"eu-ai-act", "nist">>
MCProfileSets == {{"sigstore-public"}, {"kms"}}
=============================================================================
