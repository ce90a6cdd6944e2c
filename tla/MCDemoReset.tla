---------------------------- MODULE MCDemoReset -----------------------------
(* Values of the DemoReset constants that a .cfg cannot write down.          *)
EXTENDS DemoReset, TLC

CONSTANTS acme, globex, rehearsal

OneRow == rehearsal :> 1

\* `--tenant acme`, or a scan whose one page shows acme alone.
AcmeAlone == {{acme}}
=============================================================================
