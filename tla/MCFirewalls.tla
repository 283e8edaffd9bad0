----------------------------- MODULE MCFirewalls -----------------------------
\* Firewalls for TLC: the annotations of the runs.
EXTENDS Firewalls

\* One annotation at a time, or none.
OneAnnotation == {w \in Annotations : w.id = None \/ w.acl = None}
=============================================================================
