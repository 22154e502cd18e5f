----------------------------- MODULE MC_Metering -----------------------------
EXTENDS Metering

\* The handshake's status, header and hash announcements, the two btp/63
\* codes, and a code of no message.
MC_Codes == {0, 1, 4, 9, 14, 16}
==============================================================================
