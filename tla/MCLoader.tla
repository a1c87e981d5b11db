------------------------------ MODULE MCLoader ------------------------------
(* Instances of Loader: server 0 has the even vertices, server 1 the odd   *)
(* ones, and vertices 10 to 15 fall to engines 1, 2, 0, 1, 2, 0.           *)
EXTENDS Loader

\* Triples between the servers and within one; the last file repeats one.
MCFiles == <<<<<<10, 1, 13>>, <<12, 1, 10>>>>, <<<<13, 1, 11>>>>, <<<<10, 2, 13>>, <<13, 2, 12>>>>,
             <<<<11, 1, 13>>, <<10, 1, 13>>>>>>

=============================================================================
