---- MODULE MCBackups ----
EXTENDS Backups
====
