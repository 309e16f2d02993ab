-------------------------- MODULE MC_LoRaCloudHistory --------------------------
\* The instances of MC_LoRaCloud for the specification with the history of
\* stored buffers.
EXTENDS MC_LoRaCloud, LoRaCloudHistory

=============================================================================
