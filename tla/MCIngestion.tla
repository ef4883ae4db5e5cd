---------------------------- MODULE MCIngestion -----------------------------
(***************************************************************************)
(* Ingestion on small instances: texts whose first paragraph is longer     *)
(* than what the lead is given, that fill either end to the character, and *)
(* whose ends meet in an equal heading.                                    *)
(***************************************************************************)
EXTENDS Ingestion

MCSize  == [heading |-> 1, note |-> 1, fair |-> 4, other |-> 4, third |-> 4, long |-> 16]
MCPages == {<<"long", "fair", "other", "heading">>,
            <<"fair", "other", "heading", "long", "third", "note">>}
MCTyped == {<<"fair">>, <<"heading", "long", "other", "heading">>}
=============================================================================
