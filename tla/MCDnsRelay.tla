----------------------------- MODULE MCDnsRelay ------------------------------
EXTENDS DnsRelay
==============================================================================
