----------------------------- MODULE MCDnsSetup ------------------------------
EXTENDS DnsSetup
==============================================================================
