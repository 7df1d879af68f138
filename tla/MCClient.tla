------------------------------ MODULE MCClient ------------------------------
(* Finite instances of Client for TLC. *)
EXTENDS Client

CONSTANTS s1, s2, s3, main

Site(id, called) == [id |-> id, called |-> called]

\* as set up; the name moved to the other site; two sites of one name; the
\* site off a page of two
Tables == {<<Site(s1, {main}), Site(s2, {})>>,
           <<Site(s1, {}), Site(s2, {main})>>,
           <<Site(s2, {main}), Site(s1, {main})>>,
           <<Site(s3, {}), Site(s2, {}), Site(s1, {main})>>}
=============================================================================
