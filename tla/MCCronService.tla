---- MODULE MCCronService ----
\* One one-time job and one recurring job; one of them is a command, so that its
\* creator writes a stale copy back.
EXTENDS CronService
==============================
