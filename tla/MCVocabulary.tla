------------------------------ MODULE MCVocabulary ------------------------------
(* Instance of Vocabulary: the entries are the shipped ones. *)
EXTENDS Vocabulary

CONSTANTS a, b

Shipped == <<a, b>>

================================================================================
