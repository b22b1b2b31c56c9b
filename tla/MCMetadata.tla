---- MODULE MCMetadata ----
EXTENDS Metadata
====
