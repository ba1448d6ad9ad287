---------------------------- MODULE MCPhotoPipeline ----------------------------
(* Instances of PhotoPipeline with tasks of the shipped pipeline. *)
EXTENDS PhotoPipeline

Phases ==
    [metadata |-> 1, vision |-> 2, isdoc |-> 3, embedding |-> 3, ocr |-> 4, doctext |-> 5]

Prerequisites ==
    [metadata |-> {}, vision |-> {}, isdoc |-> {}, embedding |-> {"vision"},
     ocr |-> {"isdoc"}, doctext |-> {"ocr"}]

\* The document chain, and the description with its embedding.
DocumentChain == {"isdoc", "ocr", "doctext"}
Description == {"vision", "embedding"}

\* The theorems about retries assume it of the table.
ASSUME TableIsShipped == ShippedTable

PhaseOfTasks == [t \in Task |-> Phases[t]]
DependsOnTasks == [t \in Task |-> Prerequisites[t]]

================================================================================
