---------------------------- MODULE MCTransaction -----------------------------
(* The transaction of TemplateTransaction with model values for the threads *)
(* and the contents; the cfg files say how many of each, and what fails.    *)
EXTENDS TemplateTransaction

\* Some file exists before the update and another one is created by it.
ASSUME Existing # {} /\ Existing # Files
===============================================================================
