---- MODULE MCProviders ----
EXTENDS Providers
====
