---- MODULE MCModelContext ----
EXTENDS ModelContext
CONSTANTS s1, s2
====
