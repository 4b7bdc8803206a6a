------------------------------- MODULE DpdkHal --------------------------------
(***************************************************************************)
(* The copy of the hardware abstraction layer under the DPDK driver        *)
(* (dpdk/ena/base/ena_com.c).  Its control is that of the FreeBSD copy;    *)
(* the poll mode driver also uses the debug area, and waits for the        *)
(* commands it aborts.                                                     *)
(***************************************************************************)
EXTENDS Steps, TLC

F == INSTANCE FbsdHal
H == INSTANCE HalBringUp

ena_com_mmio_reg_read_request_init == F!ena_com_mmio_reg_read_request_init
ena_com_mmio_reg_read_request_destroy == F!ena_com_mmio_reg_read_request_destroy
ena_com_reg_bar_read32 == F!ena_com_reg_bar_read32
wait_for_reset_state == F!wait_for_reset_state
ena_com_validate_version == F!ena_com_validate_version
ena_com_get_dma_width == F!ena_com_get_dma_width
ena_com_dev_reset == F!ena_com_dev_reset
ena_com_init_comp_ctxt == F!ena_com_init_comp_ctxt
ena_com_admin_init_sq == F!ena_com_admin_init_sq
ena_com_admin_init_cq == F!ena_com_admin_init_cq
ena_com_admin_init_aenq == F!ena_com_admin_init_aenq
ena_com_admin_init == F!ena_com_admin_init
ena_com_admin_destroy == F!ena_com_admin_destroy
ena_com_set_admin_running_state == F!ena_com_set_admin_running_state
ena_com_abort_admin_commands == F!ena_com_abort_admin_commands
ena_com_admin_aenq_enable == F!ena_com_admin_aenq_enable
ena_com_get_feature_ex == F!ena_com_get_feature_ex
ena_com_get_dev_attr_feat == F!ena_com_get_dev_attr_feat
ena_com_set_aenq_config == F!ena_com_set_aenq_config
ena_com_set_llq == F!ena_com_set_llq
ena_com_config_dev_mode == F!ena_com_config_dev_mode
ena_com_init_io_sq == F!ena_com_init_io_sq
ena_com_init_io_cq == F!ena_com_init_io_cq
ena_com_create_io_cq == F!ena_com_create_io_cq
ena_com_create_io_sq == F!ena_com_create_io_sq
ena_com_create_io_queue == F!ena_com_create_io_queue
ena_com_destroy_io_sq == F!ena_com_destroy_io_sq
ena_com_destroy_io_cq == F!ena_com_destroy_io_cq
ena_com_io_queue_free == F!ena_com_io_queue_free
ena_com_destroy_io_queue == F!ena_com_destroy_io_queue
ena_com_indirect_table_allocate == F!ena_com_indirect_table_allocate
ena_com_indirect_table_destroy == F!ena_com_indirect_table_destroy
ena_com_hash_key_allocate == F!ena_com_hash_key_allocate
ena_com_hash_key_destroy == F!ena_com_hash_key_destroy
ena_com_hash_ctrl_init == F!ena_com_hash_ctrl_init
ena_com_hash_ctrl_destroy == F!ena_com_hash_ctrl_destroy
ena_com_rss_init == F!ena_com_rss_init
ena_com_rss_destroy == F!ena_com_rss_destroy
ena_com_indirect_table_fill_entry == F!ena_com_indirect_table_fill_entry
ena_com_indirect_table_get == F!ena_com_indirect_table_get
ena_com_get_hash_key == F!ena_com_get_hash_key
ena_com_indirect_table_set == F!ena_com_indirect_table_set
ena_com_set_hash_function == F!ena_com_set_hash_function
ena_com_fill_hash_function == F!ena_com_fill_hash_function
ena_com_get_hash_ctrl == F!ena_com_get_hash_ctrl
ena_com_set_hash_ctrl == F!ena_com_set_hash_ctrl
ena_com_fill_hash_ctrl == F!ena_com_fill_hash_ctrl
ena_com_set_dev_mtu == F!ena_com_set_dev_mtu
ena_com_allocate_host_info == F!ena_com_allocate_host_info
ena_com_delete_host_info == F!ena_com_delete_host_info
ena_com_allocate_customer_metrics_buffer == F!ena_com_allocate_customer_metrics_buffer
ena_com_delete_customer_metrics_buffer == F!ena_com_delete_customer_metrics_buffer
ena_com_set_host_attributes == F!ena_com_set_host_attributes

ena_com_wait_for_abort_completion == Simple(Touch("q_lock"))
ena_com_allocate_debug_area == H!ena_com_allocate_debug_area
ena_com_delete_debug_area == H!ena_com_delete_debug_area

DpdkHalCode == F!FbsdHalCode @@
    [ena_com_wait_for_abort_completion |-> ena_com_wait_for_abort_completion,
     ena_com_allocate_debug_area |-> ena_com_allocate_debug_area,
     ena_com_delete_debug_area |-> ena_com_delete_debug_area]
=============================================================================
