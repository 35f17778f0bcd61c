------------------------------- MODULE MCZone -------------------------------
(* Every rule of the zone has records that break it, alone and together. *)
EXTENDS Zone, TLC

CONSTANTS c1, c2, c3

Rec(n, t, v, p, ok) ==
  [name |-> n, type |-> t, value |-> v, priority |-> p, wellFormed |-> ok]

Asked ==
  {Rec("www", "CNAME", "host", None, TRUE), Rec("@", "CNAME", "host", None, TRUE),
   Rec("@", "MX", "host", 10, TRUE), Rec("@", "MX", "host", 20, TRUE),
   Rec("@", "MX", "host", None, TRUE), Rec("www", "TXT", "spf-a", None, FALSE),
   Rec("www", "TXT", "spf-a", None, TRUE), Rec("www", "TXT", "spf-b", None, TRUE),
   Rec("_dmarc", "TXT", "dmarc-a", None, TRUE),
   Rec("_dmarc", "TXT", "dmarc-b", None, TRUE)}

Declared == ("host" :> "none" @@ "spf-a" :> "spf" @@ "spf-b" :> "spf"
             @@ "dmarc-a" :> "dmarc" @@ "dmarc-b" :> "dmarc")

Symmetry == Permutations(Requests)
=============================================================================
