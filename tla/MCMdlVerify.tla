---------------------------- MODULE MCMdlVerify ----------------------------
(* MdlVerify over responses of up to two documents: licences and photo IDs *)
(* by the issuer and licences by the presenter, signed in this session or  *)
(* elsewhere, and a licence with each fault.                               *)
EXTENDS MdlVerify

MCBuilt == {"a", "b"}
MCCandidates == {<<>>, <<"a">>, <<"b">>, <<"a", "b">>, <<"b", "a">>}

\* The licence is valid first, the photo ID later; the signer's certificate
\* expires with the licence.
MCMsoWindow == [type \in DocType |-> IF type = "mDL" THEN {0} ELSE {1}]

Sound(signer, type, mac, by, over) ==
  [signer |-> signer, fault |-> "none", signed |-> type, type |-> type,
   mac |-> mac, by |-> by, over |-> over]
Licence == Sound("issuer", "mDL", FALSE, "holder", "a")

MCDocuments ==
  {Sound("issuer", "mDL", mac, "holder", t) : mac \in BOOLEAN, t \in Transcript}
  \cup {Sound("issuer", "photoID", mac, "holder", "a") : mac \in BOOLEAN}
  \cup {Sound("issuer", "mDL", FALSE, "presenter", "a")}
  \cup {Sound("presenter", "mDL", FALSE, "presenter", t) : t \in {"a", "elsewhere"}}
  \cup {[Licence EXCEPT !.fault = f] : f \in DocumentFault \ {"none"}}
  \cup {[Licence EXCEPT !.signed = "photoID"]}
=============================================================================
