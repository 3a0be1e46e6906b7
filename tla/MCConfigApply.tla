--------------------------- MODULE MCConfigApply ---------------------------
EXTENDS ConfigApply

\* Every content is in the panel's own format (config_apply has an import that is not).
AsWritten == [c \in Configs |-> c]
=============================================================================
