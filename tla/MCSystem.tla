------------------------------ MODULE MCSystem ------------------------------
EXTENDS SystemProps

NoGarbage == {{}}

=============================================================================
