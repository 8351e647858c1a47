---- MODULE MCMessageBus ----
\* Three goroutines, one call each, over channels of capacity one: two
\* publishers can meet on a full channel, one of them blocked under the read
\* lock, while the third asks for the write lock.
EXTENDS MessageBus
=============================
