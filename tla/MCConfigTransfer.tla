-------------------------- MODULE MCConfigTransfer --------------------------
(* Model-checking instance of ConfigTransfer.                              *)
EXTENDS ConfigTransfer

CONSTANTS a, b, c

MCKinds == <<"nodes", "scripts">>

\* Two imports that insert in opposite orders; one of them names a row twice.
MCPayloads ==
    {<< <<"nodes", a>>, <<"nodes", b>>, <<"scripts", a>> >>,
     << <<"nodes", b>>, <<"nodes", a>>, <<"nodes", b>> >>}
=============================================================================
